---- MODULE Spec2Model ----
(***************************************************************************)
(* Model of the planner verification engine of the degree auditor:        *)
(* backend/server.ts, topoSort and the POST /api/verify-planner handler.  *)
(*                                                                         *)
(* The handler is a state machine over one request: the request body and  *)
(* the two prerequisite tables are the inputs, and the handler's steps    *)
(* build groupsById, the node and edge lists, run topoSort, walk the      *)
(* groups pushing violations and advisories, and send the response.       *)
(* Spec and SpecGraph hold the runs of well-formed requests against a     *)
(* store that answers; SpecRequest adds the rejected requests, the store  *)
(* calls that fail and a second request of the same client; SpecTopo runs *)
(* topoSort one loop iteration at a time on arbitrary node and edge       *)
(* lists.                                                                 *)
(*                                                                         *)
(* A message string is modelled by the template it was built from         *)
(* (field kind) and the course ids interpolated into its list (field      *)
(* named); course codes are display labels of ids and are not modelled.   *)
(***************************************************************************)
EXTENDS Integers, Sequences, FiniteSets, TLC

\* ------------------------------------------------------------- bounds
\* The classifier family (Spec): every placement of the courses over the
\* terms 0..MaxTerm, against a table of at most one group with at most
\* MaxRows member rows and a stored min_courses of 0..MaxMin.
MaxTerm == 1
MaxRows == 2
MaxMin == 2
\* The graph family (SpecGraph): up to MaxGraphGroups groups and MaxGraphRows
\* member rows.
MaxGraphGroups == 2
MaxGraphRows == 3
\* The sort family (SpecTopo): node lists of up to MaxSortNodes entries and
\* edge lists of up to MaxSortEdges pairs, over the catalog.
MaxSortNodes == 2
MaxSortEdges == 3
\* The group endpoints (SpecGroupCall): groups of up to MaxMembers rows.
MaxMembers == 2

\* The planner page (SpecPlanner): Add Next Quarter is pressed while the
\* plan has fewer than MaxQuarters entries.
MaxQuarters == 2

\* Course identifiers of the catalog.
Courses == {"A", "B", "C"}

\* JavaScript null in the place of a course id: an absent dependent.
Null == "null"

\* JavaScript null in the place of a term index: a course scheduleMap lacks.
NoTerm == -1

VARIABLES
    schedule,                       \* req.body.schedule
    remainingStandaloneCourseIds,   \* req.body.remainingStandaloneCourseIds, as the set of its elements
    scheduleIsArray,                \* Array.isArray(schedule)
    remainingIsArray,               \* Array.isArray(remainingStandaloneCourseIds)
    availability,                   \* the availability the client holds for each course it tracks
    groups,                         \* rows of PrerequisiteGroup
    groupMembersRows,               \* rows of PrerequisiteGroupCourse
    previous,                       \* the client's previous request and the response to it
    suspended,                      \* the frame of a second call of the handler that waits at an await
    apiRequest,                     \* endpoint and body or query of a request to one of the group endpoints
    requirementGroupCourse,         \* course_id of the rows of RequirementGroupCourse for the requested group
    courseAvailability,             \* rows of CourseAvailability for the requested college
    ci,                             \* index of the member the expansion loop is at
    expandedCourseIds,
    groupAvailability,              \* let availability of requirements-availability; <<>> is ""
    hasAny,
    locked,                         \* App state: the requirements are locked in
    remainingStandaloneAvailabilities,
    remainingGroupAvailabilities,
    selectedQuarter,
    plannerYear,
    summerSkip,
    plannerQuarters,
    usedStandalone,
    usedGroup,
    pc,                             \* position of the handler
    queries,                        \* the store calls made so far, each with its outcome
    sortQueue,                      \* topoSort's q, when it runs an iteration at a time
    sortIndeg,                      \* topoSort's indeg, when it runs an iteration at a time
    groupsById,                     \* Map group_id -> GroupWithMembers, in insertion order
    nodes,                          \* Array.from(nodeSet)
    edges,                          \* [prereq, dependent] pairs
    topoOrder,                      \* topoSort(...).order
    hasCycle,                       \* topoSort(...).hasCycle
    gi,                             \* index of the group the loop is at
    violations,
    advisory,
    response                        \* what res.status(..).json(..) sent; status 0 before it

vars == <<schedule, remainingStandaloneCourseIds, scheduleIsArray,
          remainingIsArray, availability, groups, groupMembersRows, previous,
          suspended, apiRequest, requirementGroupCourse, courseAvailability,
          ci, expandedCourseIds, groupAvailability, hasAny, locked,
          remainingStandaloneAvailabilities, remainingGroupAvailabilities,
          selectedQuarter, plannerYear, summerSkip, plannerQuarters,
          usedStandalone, usedGroup, pc, queries, sortQueue, sortIndeg, groupsById, nodes, edges, topoOrder,
          hasCycle, gi, violations, advisory, response>>

\* The request body and the two tables: nothing the handler writes.
inputs == <<schedule, remainingStandaloneCourseIds, scheduleIsArray,
            remainingIsArray, availability, groups, groupMembersRows, previous>>

\* The locals of topoSort that only its iteration-wise run exposes.
sortLocals == <<sortQueue, sortIndeg>>

\* What lies outside the call of the handler that is running.
\* The state of the group endpoints: their request, their tables, their locals.
groupCall == <<apiRequest, requirementGroupCourse, courseAvailability, ci,
               expandedCourseIds, groupAvailability, hasAny>>

\* The state of the planner page.
planner == <<locked, remainingStandaloneAvailabilities,
             remainingGroupAvailabilities, selectedQuarter, plannerYear,
             summerSkip, plannerQuarters, usedStandalone, usedGroup>>

elsewhere == <<suspended, groupCall, planner>>

\* ------------------------------------------------------------ helpers
SeqsUpTo(S, n) == UNION {[1..k -> S] : k \in 0..n}

Range(s) == {s[i] : i \in 1..Len(s)}

\* Array.prototype.filter with the predicate given as the set of kept values.
RECURSIVE FilterIn(_, _)
FilterIn(s, keep) ==
    IF s = <<>> THEN <<>>
    ELSE IF Head(s) \in keep THEN <<Head(s)>> \o FilterIn(Tail(s), keep)
    ELSE FilterIn(Tail(s), keep)

\* Set.prototype.add / Map.prototype.set of a new key: insertion order is kept,
\* a value already present does not move.
SetAdd(s, x) == IF x \in Range(s) THEN s ELSE Append(s, x)

\* --------------------------------------------------------- topoSort
\* Keys of the indeg Map in insertion order: the nodes, then for every edge
\* [u, v] first v, then u.
RECURSIVE IndegKeys(_, _)
IndegKeys(keys, es) ==
    IF es = <<>> THEN keys
    ELSE IndegKeys(SetAdd(SetAdd(keys, Head(es)[2]), Head(es)[1]), Tail(es))

RECURSIVE AddAll(_, _)
AddAll(keys, ns) ==
    IF ns = <<>> THEN keys ELSE AddAll(SetAdd(keys, Head(ns)), Tail(ns))

\* Mutant: an edge from a node to itself is not counted.
IndegNoSelfLoops(keys, es) ==
    [n \in Range(keys) |->
        Cardinality({i \in 1..Len(es) : es[i][2] = n /\ es[i][1] # n})]

\* indeg after the edge loop: one per edge that ends in n.
Indeg(keys, es) ==
    [n \in Range(keys) |-> Cardinality({i \in 1..Len(es) : es[i][2] = n})]

\* adj.get(n): the targets of the edges that leave n, in edge order.
RECURSIVE Adj(_, _)
Adj(n, es) ==
    IF es = <<>> THEN <<>>
    ELSE IF Head(es)[1] = n THEN <<Head(es)[2]>> \o Adj(n, Tail(es))
    ELSE Adj(n, Tail(es))

\* Mutant: every neighbor of the dequeued node is pushed, whatever its indeg.
RECURSIVE RelaxEager(_, _, _)
RelaxEager(ms, q, indeg) ==
    IF ms = <<>> THEN [q |-> q, indeg |-> indeg]
    ELSE LET m == Head(ms)
         IN  RelaxEager(Tail(ms), Append(q, m), [indeg EXCEPT ![m] = @ - 1])

\* The inner for loop over the neighbors of the dequeued node: every neighbor's
\* indeg drops by one, and a neighbor that reaches zero is pushed.
RECURSIVE Relax(_, _, _)
Relax(ms, q, indeg) ==
    IF ms = <<>> THEN [q |-> q, indeg |-> indeg]
    ELSE LET m == Head(ms)
             d == indeg[m] - 1
         IN  Relax(Tail(ms), IF d = 0 THEN Append(q, m) ELSE q,
                   [indeg EXCEPT ![m] = d])

\* The while loop of Kahn's algorithm.
RECURSIVE Kahn(_, _, _, _)
Kahn(q, order, indeg, es) ==
    IF q = <<>> THEN order
    ELSE LET n == Head(q)
             r == Relax(Adj(n, es), Tail(q), indeg)
         IN  Kahn(r.q, Append(order, n), r.indeg, es)

\* Mutant: the queue is seeded with every node, as if no edge had been counted.
SeedQueueAll(keys, indeg) == keys

\* The initial queue: the entries of indeg with d === 0, in insertion order.
SeedQueue(keys, indeg) == FilterIn(keys, {n \in Range(keys) : indeg[n] = 0})

topoSort(ns, es) ==
    LET keys  == IndegKeys(AddAll(<<>>, ns), es)
        indeg == Indeg(keys, es)
        q     == SeedQueue(keys, indeg)
        order == Kahn(q, <<>>, indeg, es)
    IN  [order |-> order, hasCycle |-> Len(order) # Len(keys)]

\* ------------------------------------------------ handler: group table
\* groupsById.set(g.group_id, ...): a key already present keeps its position.
RECURSIVE MapSet(_, _)
MapSet(m, g) ==
    IF m = <<>> THEN <<g>>
    ELSE IF Head(m).group_id = g.group_id THEN <<g>> \o Tail(m)
    ELSE <<Head(m)>> \o MapSet(Tail(m), g)

MinCoursesOr1(n) == IF n = 0 THEN 1 ELSE n

RECURSIVE GroupsFromRows(_, _)
GroupsFromRows(m, rows) ==
    IF rows = <<>> THEN m
    ELSE LET g == Head(rows)
         IN  GroupsFromRows(
                 MapSet(m, [group_id |-> g.group_id, course_id |-> g.course_id,
                            min_courses |-> MinCoursesOr1(g.min_courses),
                            members |-> <<>>]),
                 Tail(rows))

HasGroup(m, id) == \E i \in 1..Len(m) : m[i].group_id = id

\* Mutant: a member row of an unknown group id is dropped.
AddMemberRowDropOrphan(m, r) ==
    IF HasGroup(m, r.group_id)
    THEN [i \in 1..Len(m) |->
            IF m[i].group_id = r.group_id
            THEN [m[i] EXCEPT !.members = Append(@, r.prereq_id)]
            ELSE m[i]]
    ELSE m

\* g.members.push(r.prereq_id), or the orphan entry with a null dependent.
AddMemberRow(m, r) ==
    IF HasGroup(m, r.group_id)
    THEN [i \in 1..Len(m) |->
            IF m[i].group_id = r.group_id
            THEN [m[i] EXCEPT !.members = Append(@, r.prereq_id)]
            ELSE m[i]]
    ELSE Append(m, [group_id |-> r.group_id, course_id |-> Null,
                    min_courses |-> 1, members |-> <<r.prereq_id>>])

RECURSIVE AddMemberRows(_, _)
AddMemberRows(m, rows) ==
    IF rows = <<>> THEN m
    ELSE AddMemberRows(AddMemberRow(m, Head(rows)), Tail(rows))

BuildGroupsById(gs, rows) == AddMemberRows(GroupsFromRows(<<>>, gs), rows)

\* ------------------------------------------------- handler: the graph
GroupNodes(ns, g) ==
    AddAll(IF g.course_id # Null THEN SetAdd(ns, g.course_id) ELSE ns, g.members)

RECURSIVE BuildNodes(_, _)
BuildNodes(ns, m) ==
    IF m = <<>> THEN ns ELSE BuildNodes(GroupNodes(ns, Head(m)), Tail(m))

GroupEdges(g) ==
    IF g.course_id = Null THEN <<>>
    ELSE [i \in 1..Len(g.members) |-> <<g.members[i], g.course_id>>]

RECURSIVE BuildEdges(_)
BuildEdges(m) ==
    IF m = <<>> THEN <<>> ELSE GroupEdges(Head(m)) \o BuildEdges(Tail(m))

\* ------------------------------------------------ handler: the schedule
\* scheduleMap.get(c) after the loop of scheduleMap.set: the last item wins;
\* NoTerm stands for a course the map does not hold.
RECURSIVE ScheduleMapGet(_, _)
ScheduleMapGet(s, c) ==
    IF s = <<>> THEN NoTerm
    ELSE IF s[Len(s)].course_id = c THEN s[Len(s)].termIndex
    ELSE ScheduleMapGet(SubSeq(s, 1, Len(s) - 1), c)

scheduledTerm(c) == IF c = Null THEN NoTerm ELSE ScheduleMapGet(schedule, c)

\* m.scheduledTerm !== null && m.scheduledTerm < dependentTerm
ScheduledEarlier(t, dependentTerm) == t # NoTerm /\ t < dependentTerm

\* Mutant: the additional check compares with > and lets a same-term member pass.
ScheduledLaterOnly(t, dependentTerm) == t # NoTerm /\ t > dependentTerm

\* m.scheduledTerm !== null && m.scheduledTerm >= dependentTerm
ScheduledSameOrLater(t, dependentTerm) == t # NoTerm /\ t >= dependentTerm

Entry(c, k, ids) == [course_id |-> c, kind |-> k, named |-> ids]

EarlierMembers(g, dependentTerm) ==
    {p \in Range(g.members) : ScheduledEarlier(scheduledTerm(p), dependentTerm)}

\* memberInfo.reduce(...): members counted with their multiplicity.
countEarlier(g, dependentTerm) ==
    Cardinality({i \in 1..Len(g.members) :
                   ScheduledEarlier(scheduledTerm(g.members[i]), dependentTerm)})

missing(g, dependentTerm) ==
    FilterIn(g.members, Range(g.members) \ EarlierMembers(g, dependentTerm))

\* Mutant: every member counts as not scheduled.
notScheduledAll(g) == g.members

notScheduled(g) ==
    FilterIn(g.members, {p \in Range(g.members) : scheduledTerm(p) = NoTerm})

OneIfAny(c, k, ids) == IF ids = <<>> THEN <<>> ELSE <<Entry(c, k, ids)>>

\* Mutant: the threshold is compared with <=.
ShortfallOffByOne(g, dependentTerm) == countEarlier(g, dependentTerm) <= g.min_courses

\* countEarlier < g.min_courses
Shortfall(g, dependentTerm) == countEarlier(g, dependentTerm) < g.min_courses

\* Mutant: the violation lists every missing member, tracked or not.
ShortfallViolationsUnfiltered(g, dependentTerm) ==
    IF Shortfall(g, dependentTerm)
    THEN OneIfAny(g.course_id, "NotEnoughPrerequisites", missing(g, dependentTerm))
    ELSE <<>>

\* The branch for a scheduled dependent with too few members scheduled earlier.
ShortfallViolations(g, dependentTerm) ==
    IF Shortfall(g, dependentTerm)
    THEN OneIfAny(g.course_id, "NotEnoughPrerequisites",
                  FilterIn(missing(g, dependentTerm), remainingStandaloneCourseIds))
    ELSE <<>>

\* Mutant: the advisory filter is a copy of the violation filter.
ShortfallAdvisoriesSameFilter(g, dependentTerm) ==
    IF Shortfall(g, dependentTerm)
    THEN OneIfAny(g.course_id, "NotPlannedNotAvailable",
                  FilterIn(missing(g, dependentTerm), remainingStandaloneCourseIds))
    ELSE <<>>

ShortfallAdvisories(g, dependentTerm) ==
    IF Shortfall(g, dependentTerm)
    THEN OneIfAny(g.course_id, "NotPlannedNotAvailable",
                  FilterIn(missing(g, dependentTerm),
                           Courses \ remainingStandaloneCourseIds))
    ELSE <<>>

\* The branch for a dependent that is not scheduled.
UnscheduledViolations(g) ==
    OneIfAny(g.course_id, "ExistButNotScheduled",
             FilterIn(notScheduled(g), remainingStandaloneCourseIds))

UnscheduledAdvisories(g) ==
    OneIfAny(g.course_id, "NotPlannedNorAvailable",
             FilterIn(notScheduled(g), Courses \ remainingStandaloneCourseIds))

\* The additional check: one violation per member scheduled in the same or a
\* later term than the dependent.
RECURSIVE LateViolations(_, _, _)
LateViolations(ms, dependent, dependentTerm) ==
    IF ms = <<>> THEN <<>>
    ELSE (IF ScheduledSameOrLater(scheduledTerm(Head(ms)), dependentTerm)
          THEN <<Entry(dependent, "SameOrLaterTerm", <<Head(ms)>>)>>
          ELSE <<>>)
         \o LateViolations(Tail(ms), dependent, dependentTerm)

\* Mutant: a dependent placed in a quarter its availability does not list is a
\* violation.
GroupViolationsOffered(g) ==
    LET dependentTerm == scheduledTerm(g.course_id)
    IN  IF g.course_id = Null THEN <<>>
        ELSE IF dependentTerm # NoTerm
        THEN ShortfallViolations(g, dependentTerm)
             \o LateViolations(g.members, g.course_id, dependentTerm)
             \o (IF \E i \in 1..Len(schedule) :
                       /\ schedule[i].course_id = g.course_id
                       /\ availability[g.course_id] # {}
                       /\ schedule[i].termName \notin availability[g.course_id]
                 THEN <<Entry(g.course_id, "NotOffered", <<>>)>>
                 ELSE <<>>)
        ELSE UnscheduledViolations(g)

\* What one iteration of the loop over groupsById pushes.
GroupViolations(g) ==
    LET dependentTerm == scheduledTerm(g.course_id)
    IN  IF g.course_id = Null THEN <<>>
        ELSE IF dependentTerm # NoTerm
        THEN ShortfallViolations(g, dependentTerm)
             \o LateViolations(g.members, g.course_id, dependentTerm)
        ELSE UnscheduledViolations(g)

GroupAdvisories(g) ==
    LET dependentTerm == scheduledTerm(g.course_id)
    IN  IF g.course_id = Null THEN <<>>
        ELSE IF dependentTerm # NoTerm
        THEN ShortfallAdvisories(g, dependentTerm)
        ELSE UnscheduledAdvisories(g)

\* The advisory of step 7: a fixed message, no course attached.
CycleAdvisory(cyc) ==
    IF cyc THEN <<Entry(Null, "Cycle", <<>>)>> ELSE <<>>

suggestedOrder(order) == order

\* -------------------------------------------------------------- Init
NotSent == [status |-> 0]

NoPrevious == [request |-> <<>>, response |-> NotSent]

\* No second call of the handler is in flight.
NoCall == [pc |-> "none"]

\* No request to a group endpoint.
NoRequest == [endpoint |-> "none"]

\* No group endpoint is serving anything.
NoGroupCall ==
    /\ apiRequest = NoRequest
    /\ requirementGroupCourse = <<>>
    /\ courseAvailability = {}
    /\ ci = 1
    /\ expandedCourseIds = <<>>
    /\ groupAvailability = <<>>
    /\ hasAny = FALSE

\* JavaScript undefined and null in a state of the page.
None == "none"

NoYear == -1

\* The page as it is mounted.
NoPlanner ==
    /\ locked = FALSE
    /\ remainingStandaloneAvailabilities = <<>>
    /\ remainingGroupAvailabilities = <<>>
    /\ selectedQuarter = None
    /\ plannerYear = NoYear
    /\ summerSkip = FALSE
    /\ plannerQuarters = <<>>
    /\ usedStandalone = {}
    /\ usedGroup = {}

\* Nothing but the one call of the handler exists.
Quiet ==
    /\ suspended = NoCall
    /\ NoGroupCall
    /\ NoPlanner

GroupTables(maxGroups, mins) ==
    UNION {{[i \in 1..k |-> [group_id |-> i, course_id |-> f[i][1],
                             min_courses |-> f[i][2]]] :
              f \in [1..k -> (Courses \cup {Null}) \X mins]} : k \in 0..maxGroups}

MemberRow(groupIds) == [group_id : groupIds, prereq_id : Courses]

ScheduleItem(terms) == [course_id : Courses, termIndex : terms]

\* The schedules that place each course at most once, in any order.
Schedules(items) ==
    {s \in SeqsUpTo(items, Cardinality(Courses)) :
        \A i, j \in 1..Len(s) : i # j => s[i].course_id # s[j].course_id}

Idle ==
    /\ pc = "start"
    /\ queries = <<>>
    /\ sortQueue = <<>>
    /\ sortIndeg = <<>>
    /\ groupsById = <<>>
    /\ nodes = <<>>
    /\ edges = <<>>
    /\ topoOrder = <<>>
    /\ hasCycle = FALSE
    /\ gi = 1
    /\ violations = <<>>
    /\ advisory = <<>>
    /\ response = NotSent

\* A body whose two fields are arrays, sent by a client that holds no
\* availability and has sent nothing before.
PlainRequest ==
    /\ scheduleIsArray = TRUE
    /\ remainingIsArray = TRUE
    /\ availability = [c \in Courses |-> {}]
    /\ previous = NoPrevious

Init ==
    /\ PlainRequest
    /\ schedule \in Schedules(ScheduleItem(0..MaxTerm))
    /\ remainingStandaloneCourseIds \in SUBSET Courses
    /\ groups \in GroupTables(1, 0..MaxMin)
    /\ groupMembersRows \in SeqsUpTo(MemberRow({1}), MaxRows)
    /\ Idle
    /\ Quiet

\* Larger prerequisite tables with min_courses 1 throughout, whose member rows
\* may name a group id the table lacks; course A alone is placed or nothing
\* is, and every course is tracked.
InitGraph ==
    /\ PlainRequest
    /\ schedule \in {<<>>, <<[course_id |-> "A", termIndex |-> 0]>>}
    /\ remainingStandaloneCourseIds = Courses
    /\ groups \in GroupTables(MaxGraphGroups, {1})
    /\ groupMembersRows \in SeqsUpTo(MemberRow(1..MaxGraphGroups), MaxGraphRows)
    /\ Idle
    /\ Quiet

\* ----------------------------------------------- validation and store
\* Array.isArray(schedule)
ScheduleValid == scheduleIsArray

\* Mutant: the second field is not checked.
RemainingUnchecked == TRUE

\* Array.isArray(remainingStandaloneCourseIds)
RemainingValid == remainingIsArray

\* The store calls of step 1 and of loadCourseCodes, in call order.
LoadCalls == <<"openDb", "PrerequisiteGroup", "PrerequisiteGroupCourse">>

CodeCalls == <<"openDb", "Course">>

\* The calls of a list that all answered.
Answered(calls) == [i \in 1..Len(calls) |-> [call |-> calls[i], ok |-> TRUE]]

\* The calls of a list up to the k-th, which threw.
FailedAt(calls, k) == [i \in 1..k |-> [call |-> calls[i], ok |-> i < k]]

\* ------------------------------------------------------------ actions
\* Steps 1: the two tables are read and groupsById is built.
LoadGroups ==
    /\ pc = "start"
    /\ ScheduleValid
    /\ RemainingValid
    /\ queries' = queries \o Answered(LoadCalls)
    /\ groupsById' = BuildGroupsById(groups, groupMembersRows)
    /\ pc' = "graph"
    /\ UNCHANGED <<inputs, elsewhere, sortLocals, nodes, edges, topoOrder, hasCycle, gi,
                   violations, advisory, response>>

\* Steps 2 and 3: nodes, edges and the topological sort.
GraphBuilt ==
    /\ nodes' = BuildNodes(<<>>, groupsById)
    /\ edges' = BuildEdges(groupsById)
    /\ LET t == topoSort(nodes', edges')
       IN  /\ topoOrder' = t.order
           /\ hasCycle' = t.hasCycle

BuildGraph ==
    /\ pc = "graph"
    /\ GraphBuilt
    /\ queries' = queries \o Answered(CodeCalls)
    /\ pc' = "groups"
    /\ UNCHANGED <<inputs, elsewhere, sortLocals, groupsById, gi, violations, advisory,
                   response>>

\* Step 5: one iteration of  for (const [, g] of groupsById).
CheckGroup ==
    /\ pc = "groups"
    /\ gi <= Len(groupsById)
    /\ violations' = violations \o GroupViolations(groupsById[gi])
    /\ advisory' = advisory \o GroupAdvisories(groupsById[gi])
    /\ gi' = gi + 1
    /\ UNCHANGED <<inputs, elsewhere, sortLocals, pc, queries, groupsById, nodes, edges,
                   topoOrder, hasCycle, response>>

\* Step 7 and the response.
Respond ==
    /\ pc = "groups"
    /\ gi > Len(groupsById)
    /\ advisory' = advisory \o CycleAdvisory(hasCycle)
    /\ response' = [status |-> 200,
                    violations |-> violations,
                    advisory |-> advisory',
                    suggestedOrder |-> suggestedOrder(topoOrder),
                    details |-> [nodesCount |-> Len(nodes),
                                 edgesCount |-> Len(edges),
                                 topoHasCycle |-> hasCycle]]
    /\ pc' = "done"
    /\ UNCHANGED <<inputs, elsewhere, sortLocals, queries, groupsById, nodes, edges,
                   topoOrder, hasCycle, gi, violations>>

Next == LoadGroups \/ BuildGraph \/ CheckGroup \/ Respond

Spec == Init /\ [][Next]_vars

SpecGraph == InitGraph /\ [][Next]_vars

\* ------------------------------------- rejected and failed requests
BadRequest(field) ==
    [status |-> 400, error |-> field]

\* Mutant: the failure is reported as an advisory of an otherwise normal result.
InternalErrorAsAdvisory(err) ==
    [status |-> 200, violations |-> <<>>,
     advisory |-> <<Entry(Null, "StoreError", <<>>)>>, suggestedOrder |-> <<>>,
     details |-> [nodesCount |-> 0, edgesCount |-> 0, topoHasCycle |-> FALSE]]

\* The catch block: res.status(500).json({ error: String(err) }).
InternalError(err) ==
    [status |-> 500, error |-> err]

\* The two early returns of the validation.
Reject ==
    /\ pc = "start"
    /\ \/ /\ ~ScheduleValid
          /\ response' = BadRequest("schedule")
       \/ /\ ScheduleValid
          /\ ~RemainingValid
          /\ response' = BadRequest("remainingStandaloneCourseIds")
    /\ pc' = "done"
    /\ UNCHANGED <<inputs, elsewhere, sortLocals, queries, groupsById, nodes, edges,
                   topoOrder, hasCycle, gi, violations, advisory>>

\* A store call of step 1 throws: control passes to the catch block.
LoadFailure ==
    /\ pc = "start"
    /\ ScheduleValid
    /\ RemainingValid
    /\ \E k \in 1..Len(LoadCalls) :
        /\ queries' = queries \o FailedAt(LoadCalls, k)
        /\ response' = InternalError(LoadCalls[k])
    /\ pc' = "done"
    /\ UNCHANGED <<inputs, elsewhere, sortLocals, groupsById, nodes, edges, topoOrder,
                   hasCycle, gi, violations, advisory>>

\* A store call of loadCourseCodes throws, after the graph was built.
CodesFailure ==
    /\ pc = "graph"
    /\ GraphBuilt
    /\ \E k \in 1..Len(CodeCalls) :
        /\ queries' = queries \o FailedAt(CodeCalls, k)
        /\ response' = InternalError(CodeCalls[k])
    /\ pc' = "done"
    /\ UNCHANGED <<inputs, elsewhere, sortLocals, groupsById, gi, violations, advisory>>

\* Mutant: the list outlives the request, as a module-level array would.
LeftoverViolations == violations

\* const violations = []: a new list for every request.
FreshViolations == <<>>

\* What the client sent.
Request ==
    [schedule |-> schedule, remaining |-> remainingStandaloneCourseIds,
     scheduleIsArray |-> scheduleIsArray, remainingIsArray |-> remainingIsArray,
     availability |-> availability]

\* Quarter names of the planner.
TermNames == {"Fall", "Winter"}

\* The availability strings of an outstanding requirement, as sets of terms.
AvailOptions == {{}, {"Fall"}}

Retitled(s, t) == [i \in 1..Len(s) |-> [s[i] EXCEPT !.termName = t]]

\* The client sends its second request: the same body, or one whose quarter
\* names and availability strings alone are different. The handler starts
\* over; the tables are as they were.
NewRequest ==
    /\ pc = "done"
    /\ previous = NoPrevious
    /\ previous' = [request |-> Request, response |-> response]
    /\ \/ UNCHANGED <<schedule, availability>>
       \/ \E t \in TermNames, a \in AvailOptions :
            /\ schedule' = Retitled(schedule, t)
            /\ availability' =
                 [c \in Courses |->
                    IF c \in remainingStandaloneCourseIds THEN a ELSE {}]
    /\ pc' = "start"
    /\ queries' = <<>>
    /\ groupsById' = <<>>
    /\ nodes' = <<>>
    /\ edges' = <<>>
    /\ topoOrder' = <<>>
    /\ hasCycle' = FALSE
    /\ gi' = 1
    /\ violations' = FreshViolations
    /\ advisory' = <<>>
    /\ response' = NotSent
    /\ UNCHANGED <<remainingStandaloneCourseIds, scheduleIsArray,
                   remainingIsArray, groups, groupMembersRows, sortLocals,
                   elsewhere>>

NamedScheduleItem(terms) ==
    [course_id : Courses, termIndex : terms, termName : TermNames]

\* Requests of any shape from a client that places at most one course and
\* holds an availability for the courses it tracks, against a table of at
\* most one group with at most one member row.
InitRequest ==
    /\ scheduleIsArray \in BOOLEAN
    /\ remainingIsArray \in BOOLEAN
    /\ schedule \in (IF scheduleIsArray
                     THEN SeqsUpTo(NamedScheduleItem(0..MaxTerm), 1)
                     ELSE {<<>>})
    /\ remainingStandaloneCourseIds \in
         (IF remainingIsArray THEN SUBSET Courses ELSE {{}})
    /\ availability \in
         {f \in [Courses -> AvailOptions] :
            \A c \in Courses \ remainingStandaloneCourseIds : f[c] = {}}
    /\ previous = NoPrevious
    /\ groups \in GroupTables(1, {1})
    /\ groupMembersRows \in SeqsUpTo(MemberRow({1}), 1)
    /\ Idle
    /\ Quiet

NextRequest == Next \/ Reject \/ LoadFailure \/ CodesFailure \/ NewRequest

SpecRequest == InitRequest /\ [][NextRequest]_vars

\* ------------------------------------- topoSort, an iteration at a time
\* Before a call of topoSort; no request is involved.
InitTopo ==
    /\ PlainRequest
    /\ schedule = <<>>
    /\ remainingStandaloneCourseIds = {}
    /\ groups = <<>>
    /\ groupMembersRows = <<>>
    /\ nodes = <<>>
    /\ edges = <<>>
    /\ pc = "sort"
    /\ queries = <<>>
    /\ sortQueue = <<>>
    /\ sortIndeg = <<>>
    /\ groupsById = <<>>
    /\ topoOrder = <<>>
    /\ hasCycle = FALSE
    /\ gi = 1
    /\ violations = <<>>
    /\ advisory = <<>>
    /\ response = NotSent
    /\ Quiet

\* adj.size: the keys of adj are those of indeg.
AdjKeys == IndegKeys(AddAll(<<>>, nodes), edges)

\* The caller fills the two argument lists, nodes first: any node list and
\* any edge list, also ones the handler never builds (a node listed twice,
\* an edge whose ends are not nodes).
SortArgs ==
    /\ pc = "sort"
    /\ \/ /\ edges = <<>>
          /\ Len(nodes) < MaxSortNodes
          /\ \E n \in Courses : nodes' = Append(nodes, n)
          /\ UNCHANGED edges
       \/ /\ Len(edges) < MaxSortEdges
          /\ \E e \in Courses \X Courses : edges' = Append(edges, e)
          /\ UNCHANGED nodes
    /\ UNCHANGED <<inputs, elsewhere, sortLocals, pc, queries, groupsById, topoOrder,
                   hasCycle, gi, violations, advisory, response>>

\* The call topoSort(nodes, edges): the two for loops that fill adj and
\* indeg, and the loop that seeds q.
SortSeed ==
    /\ pc = "sort"
    /\ LET d == Indeg(AdjKeys, edges)
       IN  /\ sortIndeg' = d
           /\ sortQueue' = SeedQueue(AdjKeys, d)
    /\ topoOrder' = <<>>
    /\ pc' = "loop"
    /\ UNCHANGED <<inputs, elsewhere, queries, groupsById, nodes, edges, hasCycle, gi,
                   violations, advisory, response>>

\* One iteration of  while (q.length).
KahnStep ==
    /\ pc = "loop"
    /\ sortQueue # <<>>
    /\ LET n == Head(sortQueue)
           r == Relax(Adj(n, edges), Tail(sortQueue), sortIndeg)
       IN  /\ topoOrder' = Append(topoOrder, n)
           /\ sortQueue' = r.q
           /\ sortIndeg' = r.indeg
    /\ UNCHANGED <<inputs, elsewhere, pc, queries, groupsById, nodes, edges, hasCycle, gi,
                   violations, advisory, response>>

\* The loop is left and { order, hasCycle } returned.
SortReturn ==
    /\ pc = "loop"
    /\ sortQueue = <<>>
    /\ hasCycle' = (Len(topoOrder) # Len(AdjKeys))
    /\ pc' = "sorted"
    /\ UNCHANGED <<inputs, elsewhere, sortLocals, queries, groupsById, nodes, edges,
                   topoOrder, gi, violations, advisory, response>>

NextTopo == SortArgs \/ SortSeed \/ KahnStep \/ SortReturn

SpecTopo == InitTopo /\ [][NextTopo]_vars

\* ------------------------------------------ two calls of the handler
\* The frame of the running call: its request and its locals. Node.js runs one
\* call at a time and switches between calls only where a call awaits.
Frame ==
    [schedule |-> schedule, remaining |-> remainingStandaloneCourseIds,
     scheduleIsArray |-> scheduleIsArray, remainingIsArray |-> remainingIsArray,
     availability |-> availability, pc |-> pc, groupsById |-> groupsById,
     nodes |-> nodes, edges |-> edges, topoOrder |-> topoOrder,
     hasCycle |-> hasCycle, gi |-> gi, violations |-> violations,
     advisory |-> advisory, response |-> response]

\* A call that has not begun, for a body of two arrays.
NewCall(s, r) ==
    [schedule |-> s, remaining |-> r, scheduleIsArray |-> TRUE,
     remainingIsArray |-> TRUE, availability |-> [c \in Courses |-> {}],
     pc |-> "start", groupsById |-> <<>>, nodes |-> <<>>, edges |-> <<>>,
     topoOrder |-> <<>>, hasCycle |-> FALSE, gi |-> 1, violations |-> <<>>,
     advisory |-> <<>>, response |-> NotSent]

\* Mutant: violations is an array of the module, the same for every call.
ResumedViolationsShared(f) == violations

\* const violations = []: the list belongs to the call that declared it.
ResumedViolations(f) == f.violations

\* The running call is at an await (openDb, db.all, loadCourseCodes), has not
\* begun, or has returned.
AtAwait ==
    \/ pc \in {"start", "graph", "done"}
    \/ pc = "groups" /\ gi = 1

\* The event loop runs the continuation of the other call.
Resume ==
    /\ suspended # NoCall
    /\ suspended.pc # "done"
    /\ AtAwait
    /\ suspended' = Frame
    /\ schedule' = suspended.schedule
    /\ remainingStandaloneCourseIds' = suspended.remaining
    /\ scheduleIsArray' = suspended.scheduleIsArray
    /\ remainingIsArray' = suspended.remainingIsArray
    /\ availability' = suspended.availability
    /\ pc' = suspended.pc
    /\ groupsById' = suspended.groupsById
    /\ nodes' = suspended.nodes
    /\ edges' = suspended.edges
    /\ topoOrder' = suspended.topoOrder
    /\ hasCycle' = suspended.hasCycle
    /\ gi' = suspended.gi
    /\ violations' = ResumedViolations(suspended)
    /\ advisory' = suspended.advisory
    /\ response' = suspended.response
    /\ UNCHANGED <<groups, groupMembersRows, previous, queries, sortLocals,
                   groupCall, planner>>

\* Two requests that place at most one course each arrive together, against
\* a table of at most one group with at most one member row.
InitConcurrent ==
    /\ PlainRequest
    /\ schedule \in SeqsUpTo(ScheduleItem(0..MaxTerm), 1)
    /\ remainingStandaloneCourseIds \in SUBSET Courses
    /\ groups \in GroupTables(1, {1})
    /\ groupMembersRows \in SeqsUpTo(MemberRow({1}), 1)
    /\ Idle
    /\ NoGroupCall
    /\ NoPlanner
    /\ suspended \in {NewCall(s, r) :
                        s \in SeqsUpTo(ScheduleItem(0..MaxTerm), 1),
                        r \in SUBSET Courses}

NextConcurrent == Next \/ Resume

SpecConcurrent == InitConcurrent /\ [][NextConcurrent]_vars

\* ------------------------------------------- several dependents
\* Any placement of the courses against tables of up to MaxGraphGroups groups
\* with min_courses 1 and up to MaxRows member rows; every course is tracked.
InitOrder ==
    /\ PlainRequest
    /\ schedule \in Schedules(ScheduleItem(0..MaxTerm))
    /\ remainingStandaloneCourseIds = Courses
    /\ groups \in GroupTables(MaxGraphGroups, {1})
    /\ groupMembersRows \in SeqsUpTo(MemberRow(1..MaxGraphGroups), MaxRows)
    /\ Idle
    /\ Quiet

SpecOrder == InitOrder /\ [][Next]_vars

\* ------------------------------------------------ the group endpoints
\* A course id, a course code and the code a user types are strings; a string
\* is the sequence of its characters.
Digits == {"0", "1", "2", "3", "4", "5", "6", "7", "8", "9"}

\* cid.slice(0, 2)
SliceTo2(cid) == SubSeq(cid, 1, IF Len(cid) < 2 THEN Len(cid) ELSE 2)

\* cid.slice(2)
SliceFrom2(cid) == SubSeq(cid, 3, Len(cid))

\* .replace(/^0+/, "")
RECURSIVE StripLeadingZeros(_)
StripLeadingZeros(y) ==
    IF y # <<>> /\ Head(y) = "0" THEN StripLeadingZeros(Tail(y)) ELSE y

\* /\D/.test(Y) and /[^0-9]/.test(..)
HasNonDigit(y) == \E i \in 1..Len(y) : y[i] \notin Digits

\* The upper-case letter of each lower-case letter the catalog uses.
UpperOf == [a |-> "A", n |-> "N", t |-> "T", h |-> "H", y |-> "Y"]

\* String.prototype.toUpperCase and SQL UPPER
toUpperCase(str) ==
    [i \in 1..Len(str) |->
        IF str[i] \in DOMAIN UpperOf THEN UpperOf[str[i]] ELSE str[i]]

\* String.prototype.startsWith
startsWith(str, p) == Len(p) <= Len(str) /\ SubSeq(str, 1, Len(p)) = p

\* str LIKE 'p%' in SQLite: LIKE does not tell the case of ASCII letters.
Like(str, p) == startsWith(toUpperCase(str), toUpperCase(p))

ANY == <<"A", "N", "Y">>

\* Course ids: courses of two colleges, and the placeholder rows of groups.
SC101 == <<"S", "C", "1", "0", "1">>
SC07 == <<"S", "C", "0", "7">>
MA101 == <<"M", "A", "1", "0", "1">>
SC00ANTH == <<"S", "C", "0", "0", "A", "N", "T", "H">>
SCANY == <<"S", "C", "A", "N", "Y">>
SC00ANY == <<"S", "C", "0", "0", "A", "N", "Y">>
MAANY == <<"M", "A", "A", "N", "Y">>

\* The rows of Course, in rowid order: two colleges teach ANTH101, one code
\* is stored in lower case, and the placeholders are rows of the table.
CourseTable ==
    << [course_id |-> SC101, code |-> <<"A", "N", "T", "H", "1", "0", "1">>],
       [course_id |-> SC07, code |-> <<"a", "n", "t", "h", "7">>],
       [course_id |-> MA101, code |-> <<"A", "N", "T", "H", "1", "0", "1">>],
       [course_id |-> SC00ANTH, code |-> <<"A", "N", "T", "H">>],
       [course_id |-> SCANY, code |-> ANY],
       [course_id |-> MAANY, code |-> ANY] >>

\* What a row of RequirementGroupCourse may hold.
MemberTokens == {SC101, SC07, MA101, SC00ANTH, SCANY, SC00ANY, MAANY}

\* What a user may type into the course box of a group.
TypedCodes ==
    { <<>>,
      <<"A", "N", "T", "H", "1", "0", "1">>,
      <<"a", "n", "t", "h", "1", "0", "1">>,
      <<"A", "N", "T", "H", "7">>,
      <<"A", "N", "T", "H">>,
      ANY,
      <<"A", "N", "T", "H", "9">> }

quarterOrder == <<"Fall", "Winter", "Spring", "Summer">>

\* The rows of Array.prototype.filter, by a predicate given as a set of indices.
RECURSIVE FilterRows(_, _, _)
FilterRows(rows, keep, i) ==
    IF i > Len(rows) THEN <<>>
    ELSE (IF i \in keep THEN <<rows[i]>> ELSE <<>>) \o FilterRows(rows, keep, i + 1)

\* SELECT course_id FROM Course WHERE course_id LIKE 'X%' AND code LIKE 'Y%'
CourseLike(X, Y) ==
    LET hit == FilterRows(CourseTable,
                          {i \in 1..Len(CourseTable) :
                              /\ Like(CourseTable[i].course_id, X)
                              /\ Like(CourseTable[i].code, Y)}, 1)
    IN  [i \in 1..Len(hit) |-> hit[i].course_id]

\* formatAvailability(rows), and the TRIMmed CASE expression of the standalone
\* query: the quarters some row offers, in the order of the year.
formatAvailability(rows) ==
    IF rows = {} THEN <<>>
    ELSE FilterIn(quarterOrder, UNION {r.terms : r \in rows})

\* SELECT ... FROM CourseAvailability WHERE college_id = ? AND course_id IN (..)
AvailabilityRows(ids) == {r \in courseAvailability : r.course_id \in Range(ids)}

\* One iteration of the expansion loop, the same text at both endpoints:
\* "concrete" pushes the id, "any" leaves the loop, "pattern" asks the catalog.
TokenClass(cid) ==
    LET Y == StripLeadingZeros(SliceFrom2(cid))
    IN  IF ~HasNonDigit(Y) THEN "concrete"
        ELSE IF Y = ANY THEN "any"
        ELSE "pattern"

PatternMatches(cid) ==
    CourseLike(SliceTo2(cid), StripLeadingZeros(SliceFrom2(cid)))

CourseLookup == <<[call |-> "Course", ok |-> TRUE]>>

\* The body of  for (const cid of courseIds).
ExpandMember(flagAny) ==
    /\ pc = "members"
    /\ ci <= Len(requirementGroupCourse)
    /\ LET cid == requirementGroupCourse[ci]
       IN  \/ /\ TokenClass(cid) = "concrete"
              /\ expandedCourseIds' = Append(expandedCourseIds, cid)
              /\ ci' = ci + 1
              /\ UNCHANGED <<pc, queries, groupAvailability, hasAny>>
           \/ /\ TokenClass(cid) = "any"
              /\ flagAny
              /\ pc' = "broke"
              /\ UNCHANGED <<ci, queries, expandedCourseIds>>
           \/ /\ TokenClass(cid) = "pattern"
              /\ queries' = queries \o CourseLookup
              /\ expandedCourseIds' = expandedCourseIds \o PatternMatches(cid)
              /\ ci' = ci + 1
              /\ UNCHANGED <<pc, groupAvailability, hasAny>>

\* What no group endpoint touches: the verification handler and its tables.
verifier == <<schedule, remainingStandaloneCourseIds, scheduleIsArray,
              remainingIsArray, availability, groups, groupMembersRows,
              previous, suspended, planner, sortLocals, groupsById, nodes,
              edges, topoOrder, hasCycle, gi, violations, advisory>>

groupTables == <<apiRequest, requirementGroupCourse, courseAvailability>>

LoopExhausted == pc = "members" /\ ci > Len(requirementGroupCourse)

\* POST /api/requirements-availability, up to the loop over the members: the
\* standalone query and the rows of the group.
AvailabilityStart ==
    /\ pc = "start"
    /\ apiRequest.endpoint = "requirements-availability"
    /\ queries' = queries \o Answered(<<"openDb", "CourseAvailability",
                                        "RequirementGroupCourse">>)
    /\ pc' = "members"
    /\ UNCHANGED <<verifier, groupTables, ci, expandedCourseIds,
                   groupAvailability, hasAny, response>>

fullAvailability == <<"Fall", "Winter", "Spring", "Summer">>

AvailabilityExpand ==
    /\ apiRequest.endpoint = "requirements-availability"
    /\ ExpandMember(groupAvailability' = fullAvailability /\ UNCHANGED hasAny)
    /\ UNCHANGED <<verifier, groupTables, response>>

\* After the loop: if (!availability) the availability of the expanded ids,
\* groups.push, and the response. A group without rows is no key of grouped.
AvailabilityReply ==
    /\ apiRequest.endpoint = "requirements-availability"
    /\ LoopExhausted \/ pc = "broke"
    /\ LET ask == groupAvailability = <<>> /\ expandedCourseIds # <<>>
           a   == IF groupAvailability # <<>> THEN groupAvailability
                  ELSE formatAvailability(AvailabilityRows(expandedCourseIds))
       IN  /\ queries' = IF ask
                         THEN Append(queries, [call |-> "CourseAvailability",
                                               ok |-> TRUE])
                         ELSE queries
           /\ groupAvailability' = a
           /\ response' =
                [status |-> 200,
                 standalone |->
                    {[course_id |-> r.course_id,
                      availability |-> formatAvailability({r})] :
                        r \in AvailabilityRows(apiRequest.standaloneCourseIds)},
                 groups |-> IF requirementGroupCourse = <<>> THEN <<>>
                            ELSE <<[availability |-> a]>>]
    /\ pc' = "done"
    /\ UNCHANGED <<verifier, groupTables, ci, expandedCourseIds, hasAny>>

\* POST /api/group-term-courses, up to the loop over the members.
TermCoursesStart ==
    /\ pc = "start"
    /\ apiRequest.endpoint = "group-term-courses"
    /\ queries' = queries \o Answered(<<"openDb", "RequirementGroupCourse">>)
    /\ pc' = "members"
    /\ UNCHANGED <<verifier, groupTables, ci, expandedCourseIds,
                   groupAvailability, hasAny, response>>

TermCoursesExpand ==
    /\ apiRequest.endpoint = "group-term-courses"
    /\ ExpandMember(hasAny' = TRUE /\ UNCHANGED groupAvailability)
    /\ UNCHANGED <<verifier, groupTables, response>>

\* SELECT course_id, code FROM Course WHERE course_id IN (the rows of the group)
allCourses ==
    {r \in Range(CourseTable) : r.course_id \in Range(requirementGroupCourse)}

\* The join of CourseAvailability and Course over the expanded ids, for the
\* rows whose column of the term is 1.
coursesWithTerm(term) ==
    {r \in Range(CourseTable) :
        \E ca \in AvailabilityRows(expandedCourseIds) :
            ca.course_id = r.course_id /\ term \in ca.terms}

TermCoursesReply ==
    /\ apiRequest.endpoint = "group-term-courses"
    /\ LoopExhausted \/ pc = "broke"
    /\ queries' = Append(queries, [call |-> IF hasAny THEN "Course"
                                            ELSE "CourseAvailability",
                                   ok |-> TRUE])
    /\ response' = [status |-> 200,
                    courses |-> IF hasAny THEN allCourses
                                ELSE coursesWithTerm(apiRequest.term)]
    /\ pc' = "done"
    /\ UNCHANGED <<verifier, groupTables, ci, expandedCourseIds,
                   groupAvailability, hasAny>>

\* ------------------------------------------------------ validate-v2
\* SELECT course_id, code FROM Course WHERE UPPER(code) = ?
coursesA(courseCodeInput) ==
    FilterRows(CourseTable,
               {i \in 1..Len(CourseTable) :
                   toUpperCase(CourseTable[i].code) = courseCodeInput}, 1)

\* The rows of the group joined with Course: a member that is no row of
\* Course drops out.
RECURSIVE JoinCourse(_)
JoinCourse(ids) ==
    IF ids = <<>> THEN <<>>
    ELSE FilterRows(CourseTable,
                    {i \in 1..Len(CourseTable) :
                        CourseTable[i].course_id = Head(ids)}, 1)
         \o JoinCourse(Tail(ids))

coursesB == JoinCourse(requirementGroupCourse)

\* Array.prototype.find: the first row of the kept indices, or nothing.
FirstRow(rows, keep) ==
    IF keep = {} THEN <<>>
    ELSE <<rows[CHOOSE i \in keep : \A j \in keep : i <= j]>>

directMatch(A, B) ==
    FirstRow(B, {i \in 1..Len(B) :
                   \E k \in 1..Len(A) :
                       A[k].course_id = B[i].course_id /\ A[k].code = B[i].code})

nonNumeralCoursesB(B) ==
    FilterRows(B, {i \in 1..Len(B) : HasNonDigit(SliceFrom2(B[i].course_id))}, 1)

\* Mutant: the prefix of the course id is not compared.
AcceptsAnyPrefix(b, a, courseCodeInput) ==
    LET X == toUpperCase(StripLeadingZeros(SliceFrom2(b.course_id)))
    IN  /\ X # courseCodeInput
        /\ X # ANY => startsWith(toUpperCase(a.code), X)

\* The two if statements of the inner loop, for a member b and a course a.
Accepts(b, a, courseCodeInput) ==
    LET Y == SliceTo2(b.course_id)
        X == toUpperCase(StripLeadingZeros(SliceFrom2(b.course_id)))
    IN  /\ X # courseCodeInput
        /\ IF X = ANY THEN startsWith(a.course_id, Y)
           ELSE startsWith(toUpperCase(a.code), X) /\ startsWith(a.course_id, Y)

\* The two loops: the first member, and for it the first course, that accepts.
RECURSIVE acceptedCourse(_, _, _)
acceptedCourse(bs, A, courseCodeInput) ==
    IF bs = <<>> THEN <<>>
    ELSE LET first == FirstRow(A, {k \in 1..Len(A) :
                                      Accepts(Head(bs), A[k], courseCodeInput)})
         IN  IF first # <<>> THEN first
             ELSE acceptedCourse(Tail(bs), A, courseCodeInput)

Verdict(st, v, c) == [status |-> st, valid |-> v, course |-> c]

validateV2(groupId, courseCode) ==
    LET courseCodeInput == toUpperCase(courseCode)
        A  == coursesA(courseCodeInput)
        B  == coursesB
        dm == directMatch(A, B)
        nn == nonNumeralCoursesB(B)
        ac == acceptedCourse(nn, A, courseCodeInput)
    IN  IF groupId = 0 \/ courseCodeInput = <<>> THEN Verdict(400, FALSE, <<>>)
        ELSE IF A = <<>> THEN Verdict(200, FALSE, <<>>)
        ELSE IF B = <<>> THEN Verdict(200, FALSE, <<>>)
        ELSE IF dm # <<>> /\ dm[1] \notin Range(nn) THEN Verdict(200, TRUE, dm)
        ELSE IF nn = <<>> THEN Verdict(200, FALSE, <<>>)
        ELSE IF ac # <<>> THEN Verdict(200, TRUE, ac)
        ELSE Verdict(200, FALSE, <<>>)

\* The store calls of validate-v2 up to its return.
validateCalls(groupId, courseCode) ==
    IF groupId = 0 \/ courseCode = <<>> THEN <<>>
    ELSE IF coursesA(toUpperCase(courseCode)) = <<>> THEN <<"openDb", "Course">>
    ELSE <<"openDb", "Course", "RequirementGroupCourse">>

\* GET /api/groups/:groupId/validate-v2
Validate ==
    /\ pc = "start"
    /\ apiRequest.endpoint = "validate-v2"
    /\ queries' = queries \o Answered(validateCalls(apiRequest.groupId,
                                                    apiRequest.courseCode))
    /\ response' = validateV2(apiRequest.groupId, apiRequest.courseCode)
    /\ pc' = "done"
    /\ UNCHANGED <<verifier, groupTables, ci, expandedCourseIds,
                   groupAvailability, hasAny>>

\* ---------------------------------------- the group endpoints: runs
ApiRequest(e, ids, term, groupId, code) ==
    [endpoint |-> e, standaloneCourseIds |-> ids, term |-> term,
     groupId |-> groupId, courseCode |-> code]

ApiRequests ==
    {ApiRequest("requirements-availability", ids, "", 1, <<>>) :
        ids \in {<<>>, <<SC101, SC07>>}}
    \cup {ApiRequest("group-term-courses", <<>>, term, 1, <<>>) :
            term \in Range(quarterOrder)}
    \cup {ApiRequest("validate-v2", <<>>, "", groupId, code) :
            groupId \in {0, 1}, code \in TypedCodes}

\* The tables of CourseAvailability: a course of the college has no row, or
\* a row with the quarters it is offered in.
AvailabilityTables ==
    UNION {{{[course_id |-> c, terms |-> f[c]] : c \in D} :
              f \in [D -> {{"Fall"}, {"Winter", "Summer"}}]} :
           D \in SUBSET {SC101, SC07}}

\* A request to one of the three endpoints, for a group of up to MaxMembers
\* rows.
InitGroupCall ==
    /\ PlainRequest
    /\ schedule = <<>>
    /\ remainingStandaloneCourseIds = {}
    /\ groups = <<>>
    /\ groupMembersRows = <<>>
    /\ Idle
    /\ suspended = NoCall
    /\ NoPlanner
    /\ apiRequest \in ApiRequests
    /\ requirementGroupCourse \in SeqsUpTo(MemberTokens, MaxMembers)
    /\ courseAvailability \in AvailabilityTables
    /\ ci = 1
    /\ expandedCourseIds = <<>>
    /\ groupAvailability = <<>>
    /\ hasAny = FALSE

NextGroupCall ==
    \/ AvailabilityStart
    \/ AvailabilityExpand
    \/ AvailabilityReply
    \/ TermCoursesStart
    \/ TermCoursesExpand
    \/ TermCoursesReply
    \/ Validate

SpecGroupCall == InitGroupCall /\ [][NextGroupCall]_vars

\* ===================================================================
\* The planner page (App.tsx): the page state, its handlers, and the
\* verify-planner request handleVerifier posts.
\* ===================================================================
\* The requirements of the confirmed degree, none of them taken: one
\* standalone course and one group instance.
standaloneRequirements == <<"A">>

groupRequirements == <<"1-G1">>

StandaloneIds == Range(standaloneRequirements)

GroupKeys == Range(groupRequirements)

\* The course a validated code of a group slot resolves to.
ChosenCourses == {"C"}

PlannerYears == {2025}

\* { ...sr, availability }: a record of the remaining standalone list.
StandaloneRecord(c) ==
    [course_id |-> c, code |-> c, availability |-> <<"Fall">>]

\* { ...gr, availability }: a record of the remaining group list.
GroupRecord(k) ==
    [group_id |-> 1, group_instance |-> k, availability |-> <<"Fall">>]

\* {}: a slot nothing was dropped on.
EmptySlot == [course |-> None, groupKey |-> None, chosenCourse |-> None]

NewQuarter(name, year) ==
    [name |-> name, year |-> year,
     slots |-> <<EmptySlot, EmptySlot, EmptySlot>>, isPlaceholder |-> FALSE]

SummerPlaceholder(year) ==
    [name |-> "Summer", year |-> year, slots |-> <<>>, isPlaceholder |-> TRUE]

\* quarterOrder.indexOf(name), zero-based.
IndexOfQuarter(name) == (CHOOSE i \in 1..4 : quarterOrder[i] = name) - 1

\* The while loop of the generate-quarters effect.
RECURSIVE GenerateQuarters(_, _, _, _, _)
GenerateQuarters(quarters, currentYear, qIndex, quartersAdded, numQuarters) ==
    IF quartersAdded >= numQuarters
    THEN quarters
    ELSE LET qName == quarterOrder[(qIndex % 4) + 1]
         IN  IF qName = "Summer" /\ summerSkip'
             THEN GenerateQuarters(Append(quarters, SummerPlaceholder(currentYear)),
                                   currentYear, qIndex + 1, quartersAdded,
                                   numQuarters)
             ELSE GenerateQuarters(Append(quarters, NewQuarter(qName, currentYear)),
                                   IF qName = "Winter" THEN currentYear + 1
                                                       ELSE currentYear,
                                   qIndex + 1, quartersAdded + 1, numQuarters)

\* The effect that runs after a render in which one of its five dependencies
\* changed: it replaces the plan, and nothing else, when a start quarter and
\* a year are selected.
GenerateEffect ==
    IF selectedQuarter' = None \/ plannerYear' = NoYear
    THEN UNCHANGED plannerQuarters
    ELSE LET totalCourses == Len(remainingStandaloneAvailabilities')
                               + Len(remainingGroupAvailabilities')
             numQuarters == (totalCourses + 2) \div 3
         IN  plannerQuarters' =
                 GenerateQuarters(<<>>, plannerYear',
                                  IndexOfQuarter(selectedQuarter'), 0, numQuarters)

\* What a handler of the page leaves alone.
server == <<inputs, suspended, groupCall, sortLocals, pc, queries, groupsById,
            nodes, edges, topoOrder, hasCycle, gi, violations, advisory,
            response>>

\* The start-quarter select.
SelectQuarter ==
    /\ locked
    /\ \E q \in Range(quarterOrder) \cup {None} :
        /\ q # selectedQuarter
        /\ selectedQuarter' = q
    /\ UNCHANGED <<plannerYear, summerSkip, remainingStandaloneAvailabilities,
                   remainingGroupAvailabilities>>
    /\ GenerateEffect
    /\ UNCHANGED <<server, locked, usedStandalone, usedGroup>>

\* The year select.
SelectYear ==
    /\ locked
    /\ \E y \in PlannerYears \cup {NoYear} :
        /\ y # plannerYear
        /\ plannerYear' = y
    /\ UNCHANGED <<selectedQuarter, summerSkip, remainingStandaloneAvailabilities,
                   remainingGroupAvailabilities>>
    /\ GenerateEffect
    /\ UNCHANGED <<server, locked, usedStandalone, usedGroup>>

\* The Skip Summer checkbox.
ToggleSummerSkip ==
    /\ locked
    /\ summerSkip' = ~summerSkip
    /\ UNCHANGED <<selectedQuarter, plannerYear, remainingStandaloneAvailabilities,
                   remainingGroupAvailabilities>>
    /\ GenerateEffect
    /\ UNCHANGED <<server, locked, usedStandalone, usedGroup>>

\* handleLockToggle. Locking fetches the availabilities and sets the two
\* remaining lists, or leaves them when the fetch fails; unlocking empties
\* them. The lists are new arrays either way, so the effect runs.
handleLockToggle ==
    /\ IF ~locked
       THEN \/ /\ remainingStandaloneAvailabilities' =
                      [i \in 1..Len(standaloneRequirements) |->
                          StandaloneRecord(standaloneRequirements[i])]
               /\ remainingGroupAvailabilities' =
                      [i \in 1..Len(groupRequirements) |->
                          GroupRecord(groupRequirements[i])]
               /\ UNCHANGED <<selectedQuarter, plannerYear, summerSkip>>
               /\ GenerateEffect
            \/ UNCHANGED <<remainingStandaloneAvailabilities,
                           remainingGroupAvailabilities, selectedQuarter,
                           plannerYear, summerSkip, plannerQuarters>>
       ELSE /\ remainingStandaloneAvailabilities' = <<>>
            /\ remainingGroupAvailabilities' = <<>>
            /\ UNCHANGED <<selectedQuarter, plannerYear, summerSkip>>
            /\ GenerateEffect
    /\ locked' = ~locked
    /\ UNCHANGED <<server, usedStandalone, usedGroup>>

\* The plan is on the page.
PlanShown == locked /\ selectedQuarter # None /\ plannerYear # NoYear

\* newPlanner.splice(insertIndex, 0, q), insertIndex zero-based.
Splice(s, insertIndex, q) ==
    LET k == IF insertIndex > Len(s) THEN Len(s) ELSE insertIndex
    IN  SubSeq(s, 1, k) \o <<q>> \o SubSeq(s, k + 1, Len(s))

\* addSummerQuarter(year), from the button of a placeholder of that year.
addSummerQuarter ==
    /\ PlanShown
    /\ \E p \in 1..Len(plannerQuarters) :
        LET year == plannerQuarters[p].year
            IsSummer(q) == q.name = "Summer" /\ q.year = year
            IsSpring(q) == q.name = "Spring" /\ q.year = year
            IsPlaceholder(q) == q.isPlaceholder /\ IsSummer(q)
            springs == {i \in 1..Len(plannerQuarters) : IsSpring(plannerQuarters[i])}
            insertIndex == IF springs = {} THEN Len(plannerQuarters)
                           ELSE CHOOSE i \in springs : \A j \in springs : i <= j
        IN  /\ plannerQuarters[p].isPlaceholder
            /\ ~\E i \in 1..Len(plannerQuarters) :
                  IsSummer(plannerQuarters[i]) /\ ~plannerQuarters[i].isPlaceholder
            /\ plannerQuarters' =
                   Splice(FilterRows(plannerQuarters,
                                     {i \in 1..Len(plannerQuarters) :
                                         ~IsPlaceholder(plannerQuarters[i])}, 1),
                          insertIndex, NewQuarter("Summer", year))
    /\ UNCHANGED <<server, locked, remainingStandaloneAvailabilities,
                   remainingGroupAvailabilities, selectedQuarter, plannerYear,
                   summerSkip, usedStandalone, usedGroup>>

\* addNextQuarter, the Add Next Quarter button.
addNextQuarter ==
    /\ PlanShown
    /\ plannerQuarters # <<>>
    /\ Len(plannerQuarters) < MaxQuarters
    /\ LET last == plannerQuarters[Len(plannerQuarters)]
           nextIndex == (IndexOfQuarter(last.name) + 1) % 4
           nextName == quarterOrder[nextIndex + 1]
           nextYear == IF last.name = "Winter" THEN last.year + 1 ELSE last.year
       IN  plannerQuarters' =
               IF nextName = "Summer" /\ summerSkip
               THEN plannerQuarters
                      \o <<SummerPlaceholder(nextYear), NewQuarter("Fall", nextYear)>>
               ELSE Append(plannerQuarters, NewQuarter(nextName, nextYear))
    /\ UNCHANGED <<server, locked, remainingStandaloneAvailabilities,
                   remainingGroupAvailabilities, selectedQuarter, plannerYear,
                   summerSkip, usedStandalone, usedGroup>>

\* The slots of the plan, as pairs of one-based positions.
SlotsOf(qs) ==
    {<<q, s>> \in (1..Len(qs)) \X (1..3) : s <= Len(qs[q].slots)}

SlotAt(qs, at) == qs[at[1]].slots[at[2]]

SetSlot(qs, at, slot) == [qs EXCEPT ![at[1]].slots[at[2]] = slot]

\* getGroupKey for a group, undefined for a standalone course.
DroppedSlot(course) ==
    [course |-> course,
     groupKey |-> IF course \in GroupKeys THEN course ELSE None,
     chosenCourse |-> None]

\* handleDropCourse for a requirement dragged from a remaining list, which is
\* draggable while it is not in its used set.
DropFromList ==
    /\ PlanShown
    /\ \E at \in SlotsOf(plannerQuarters) :
        \E course \in
              {remainingStandaloneAvailabilities[i].course_id :
                   i \in 1..Len(remainingStandaloneAvailabilities)}
                \cup {remainingGroupAvailabilities[i].group_instance :
                          i \in 1..Len(remainingGroupAvailabilities)} :
            /\ course \notin usedStandalone \cup usedGroup
            /\ plannerQuarters' = SetSlot(plannerQuarters, at, DroppedSlot(course))
            /\ IF course \in StandaloneIds
               THEN /\ usedStandalone' = usedStandalone \cup {course}
                    /\ UNCHANGED usedGroup
               ELSE /\ usedGroup' = usedGroup \cup {course}
                    /\ UNCHANGED usedStandalone
    /\ UNCHANGED <<server, locked, remainingStandaloneAvailabilities,
                   remainingGroupAvailabilities, selectedQuarter, plannerYear,
                   summerSkip>>

\* handleDropCourse for a card dragged from a slot of the plan: the old slot
\* is cleared, then the target is set.
MoveCourse ==
    /\ PlanShown
    /\ \E from, at \in SlotsOf(plannerQuarters) :
        /\ SlotAt(plannerQuarters, from).course # None
        /\ plannerQuarters' =
               SetSlot(SetSlot(plannerQuarters, from, EmptySlot), at,
                       DroppedSlot(SlotAt(plannerQuarters, from).course))
    /\ UNCHANGED <<server, locked, remainingStandaloneAvailabilities,
                   remainingGroupAvailabilities, selectedQuarter, plannerYear,
                   summerSkip, usedStandalone, usedGroup>>

\* handleRemoveCourse
handleRemoveCourse ==
    /\ PlanShown
    /\ \E at \in SlotsOf(plannerQuarters) :
        LET slot == SlotAt(plannerQuarters, at)
        IN  /\ slot.course # None
            /\ usedStandalone' = usedStandalone \ {slot.course}
            /\ usedGroup' = usedGroup \ {slot.course}
            /\ plannerQuarters' = SetSlot(plannerQuarters, at, EmptySlot)
    /\ UNCHANGED <<server, locked, remainingStandaloneAvailabilities,
                   remainingGroupAvailabilities, selectedQuarter, plannerYear,
                   summerSkip>>

\* handlePlannerGroupInputBlur on the input of a group slot, taken as one
\* step: an empty code clears the chosen course, a code that validate-v2
\* accepts and that conflicts with nothing sets it.
handlePlannerGroupInputBlur ==
    /\ PlanShown
    /\ \E at \in SlotsOf(plannerQuarters) :
        LET slot == SlotAt(plannerQuarters, at)
        IN  /\ slot.course \in GroupKeys
            /\ \E chosen \in ChosenCourses \cup {None} :
                /\ chosen # slot.chosenCourse
                /\ plannerQuarters' =
                       SetSlot(plannerQuarters, at,
                               [slot EXCEPT !.chosenCourse = chosen])
    /\ UNCHANGED <<server, locked, remainingStandaloneAvailabilities,
                   remainingGroupAvailabilities, selectedQuarter, plannerYear,
                   summerSkip, usedStandalone, usedGroup>>

\* Mutant: a plan with a quarter can always be verified.
canVerifyAnyPlan == plannerQuarters # <<>>

\* canVerify
canVerify ==
    /\ \A at \in SlotsOf(plannerQuarters) :
        ~(/\ SlotAt(plannerQuarters, at).groupKey # None
          /\ SlotAt(plannerQuarters, at).chosenCourse = None)
    /\ plannerQuarters # <<>>

\* Mutant: the index of the quarter's name in the calendar.
termIndexByCalendar(qIndex, quarter) == IndexOfQuarter(quarter.name)

\* const termIndex = qIndex
termIndexOf(qIndex, quarter) == qIndex

\* The items buildScheduleFromPlannerQuarters pushes for one slot.
SlotItems(slot, termIndex, termName) ==
    IF slot.course = None THEN <<>>
    ELSE IF slot.course \in StandaloneIds
    THEN <<[course |-> StandaloneRecord(slot.course), termIndex |-> termIndex,
            termName |-> termName]>>
    ELSE IF slot.chosenCourse # None
    THEN <<[course |-> StandaloneRecord(slot.chosenCourse),
            termIndex |-> termIndex, termName |-> termName]>>
    ELSE <<>>

RECURSIVE QuarterItems(_, _, _, _)
QuarterItems(slots, s, termIndex, termName) ==
    IF s > Len(slots) THEN <<>>
    ELSE SlotItems(slots[s], termIndex, termName)
           \o QuarterItems(slots, s + 1, termIndex, termName)

\* buildScheduleFromPlannerQuarters, from the zero-based quarter qIndex on.
RECURSIVE buildScheduleFromPlannerQuarters(_)
buildScheduleFromPlannerQuarters(qIndex) ==
    IF qIndex >= Len(plannerQuarters) THEN <<>>
    ELSE LET quarter == plannerQuarters[qIndex + 1]
         IN  QuarterItems(quarter.slots, 1, termIndexOf(qIndex, quarter),
                          quarter.name)
               \o buildScheduleFromPlannerQuarters(qIndex + 1)

\* JavaScript undefined, as the value of a property an object lacks.
Undefined == "undefined"

\* item.course_id, as the handler reads it from an item of the body.
ItemCourseId(item) ==
    IF "course_id" \in DOMAIN item THEN item.course_id ELSE Undefined

\* The body handleVerifier posts:  { schedule, remainingStandaloneCourses }.
VerifyBody ==
    [schedule |-> buildScheduleFromPlannerQuarters(0),
     remainingStandaloneCourses |-> remainingStandaloneAvailabilities]

\* handleVerifier, up to its fetch, and the handler's destructuring of the
\* body it receives,  const { schedule, remainingStandaloneCourseIds } =
\* req.body,  with item.course_id for the course of an item.
handleVerifier ==
    /\ PlanShown
    /\ pc \in {"start", "done"}
    /\ canVerify
    /\ scheduleIsArray' = ("schedule" \in DOMAIN VerifyBody)
    /\ remainingIsArray' = ("remainingStandaloneCourseIds" \in DOMAIN VerifyBody)
    /\ schedule' = [i \in 1..Len(VerifyBody.schedule) |->
                       [course_id |-> ItemCourseId(VerifyBody.schedule[i]),
                        termIndex |-> VerifyBody.schedule[i].termIndex]]
    /\ remainingStandaloneCourseIds' = {}
    /\ pc' = "start"
    /\ response' = NotSent
    /\ UNCHANGED <<availability, groups, groupMembersRows, previous, suspended,
                   groupCall, planner, sortLocals, queries, groupsById, nodes,
                   edges, topoOrder, hasCycle, gi, violations, advisory>>

\* The page as mounted, over prerequisite tables with one group, and a
\* handler that has received nothing.
InitPlanner ==
    /\ scheduleIsArray = TRUE
    /\ remainingIsArray = TRUE
    /\ schedule = <<>>
    /\ remainingStandaloneCourseIds = {}
    /\ availability = [c \in Courses |-> {}]
    /\ previous = NoPrevious
    /\ groups = <<[group_id |-> 1, course_id |-> "A", min_courses |-> 1]>>
    /\ groupMembersRows = <<[group_id |-> 1, prereq_id |-> "B"]>>
    /\ Idle
    /\ Quiet

NextPlanner ==
    \/ SelectQuarter
    \/ SelectYear
    \/ ToggleSummerSkip
    \/ handleLockToggle
    \/ addSummerQuarter
    \/ addNextQuarter
    \/ DropFromList
    \/ MoveCourse
    \/ handleRemoveCourse
    \/ handlePlannerGroupInputBlur
    \/ handleVerifier
    \/ Reject

SpecPlanner == InitPlanner /\ [][NextPlanner]_vars

\* ===================================================================
\* Properties
\* ===================================================================
\* The reading of the request the properties use: a course is scheduled at
\* the term index of its last item in the schedule.
IsScheduled(c) == \E i \in 1..Len(schedule) : schedule[i].course_id = c

TermOf(c) ==
    LET last == CHOOSE i \in 1..Len(schedule) :
                    /\ schedule[i].course_id = c
                    /\ \A j \in (i + 1)..Len(schedule) : schedule[j].course_id # c
    IN  schedule[last].termIndex

StrictlyEarlier(p, d) == IsScheduled(p) /\ TermOf(p) < TermOf(d)

SameOrLater(p, d) == IsScheduled(p) /\ TermOf(p) >= TermOf(d)

\* Number of member rows of g scheduled strictly before its dependent.
EarlierCount(g) ==
    Cardinality({i \in 1..Len(g.members) : StrictlyEarlier(g.members[i], g.course_id)})

\* Groups with a dependent that is scheduled.
ScheduledGroup(g) == g.course_id # Null /\ IsScheduled(g.course_id)

Unmet(g) == {p \in Range(g.members) : ~StrictlyEarlier(p, g.course_id)}

Names(e) == Range(e.named)

InViolations(p) == \E v \in Range(response.violations) : p \in Names(v)

InAdvisories(p) == \E a \in Range(response.advisory) : p \in Names(a)

ViolationFor(d, p) ==
    \E v \in Range(response.violations) : v.course_id = d /\ p \in Names(v)

AdvisoryFor(d, p) ==
    \E a \in Range(response.advisory) : a.course_id = d /\ p \in Names(a)

AllGroups == Range(groupsById)

\* C1 -- Term-order invariant: for every group whose dependent is scheduled,
\* every member scheduled in the same or a later term than the dependent has
\* a "must be scheduled earlier" violation of its own for the dependent,
\* whether or not min_courses members are scheduled earlier.
C1_TermOrderInvariant ==
    pc = "done" =>
        \A g \in AllGroups :
            ScheduledGroup(g) =>
                \A p \in Range(g.members) :
                    SameOrLater(p, g.course_id) =>
                        \E v \in Range(response.violations) :
                            /\ v.course_id = g.course_id
                            /\ v.kind = "SameOrLaterTerm"
                            /\ v.named = <<p>>

\* C1 witness: a group whose threshold is met by an earlier member while
\* another member is scheduled in the dependent's term or later.
C1_Witness ==
    /\ pc = "done"
    /\ \E g \in AllGroups :
        /\ ScheduledGroup(g)
        /\ EarlierCount(g) >= g.min_courses
        /\ \E p \in Range(g.members) : SameOrLater(p, g.course_id)

\* C2 -- Partition completeness, as claimed: every unmet member of a scheduled
\* dependent whose group is short of min_courses is named by entries of
\* exactly one of the two lists, violations or advisories.
C2_PartitionCompleteness ==
    pc = "done" =>
        \A g \in AllGroups :
            (ScheduledGroup(g) /\ EarlierCount(g) < g.min_courses) =>
                \A p \in Unmet(g) : InViolations(p) # InAdvisories(p)

\* C3 -- Only tracked courses can be violations, as claimed: every course a
\* violation lists is in the remaining standalone set.
C3_OnlyTrackedViolations ==
    pc = "done" =>
        \A v \in Range(response.violations) :
            Names(v) \subseteq remainingStandaloneCourseIds

\* C3 amended -- every course a violation lists is in the remaining standalone
\* set or is scheduled in the same or a later term than the violation's
\* scheduled dependent; a member that is neither scheduled nor in the set, of
\* a group that is short or whose dependent is unscheduled, is named by an
\* advisory for the dependent and by no violation.
C3_TrackedOrLateViolations ==
    pc = "done" =>
        /\ \A v \in Range(response.violations) :
            \A p \in Names(v) :
                \/ p \in remainingStandaloneCourseIds
                \/ /\ IsScheduled(v.course_id)
                   /\ SameOrLater(p, v.course_id)
        /\ \A g \in AllGroups :
            (/\ g.course_id # Null
             /\ IsScheduled(g.course_id) => EarlierCount(g) < g.min_courses) =>
                \A p \in Range(g.members) :
                    (~IsScheduled(p) /\ p \notin remainingStandaloneCourseIds) =>
                        AdvisoryFor(g.course_id, p) /\ ~InViolations(p)

\* C3 witness: one response holds a violation that lists an untracked member
\* scheduled too late and an advisory that names an untracked, unscheduled one.
C3_Witness ==
    /\ pc = "done"
    /\ \E g \in AllGroups :
        /\ ScheduledGroup(g)
        /\ \E p \in Range(g.members) :
            /\ p \notin remainingStandaloneCourseIds
            /\ SameOrLater(p, g.course_id)
            /\ ViolationFor(g.course_id, p)
        /\ \E p \in Range(g.members) :
            /\ p \notin remainingStandaloneCourseIds
            /\ ~IsScheduled(p)
            /\ AdvisoryFor(g.course_id, p)
            /\ ~InViolations(p)

\* Scenario A: X = A requires 1 of {B, C}, A is placed with neither B nor C
\* scheduled, B is tracked and C is not.
ScenarioA ==
    /\ groups = <<[group_id |-> 1, course_id |-> "A", min_courses |-> 1]>>
    /\ groupMembersRows = <<[group_id |-> 1, prereq_id |-> "B"],
                            [group_id |-> 1, prereq_id |-> "C"]>>
    /\ schedule = <<[course_id |-> "A", termIndex |-> 1]>>
    /\ remainingStandaloneCourseIds = {"B"}

AtGroup == pc = "groups" /\ gi <= Len(groupsById)

\* C5 -- Strictly-earlier satisfaction: the iteration for a group whose
\* dependent is scheduled, with at least min_courses members strictly earlier
\* and no member in the same or a later term, pushes nothing; a member in the
\* dependent's own term does not count, so the iteration for a group with
\* fewer than min_courses members strictly earlier and an unmet member pushes
\* at least one entry.
C5_StrictlyEarlier ==
    [][AtGroup =>
        LET g == groupsById[gi]
        IN  /\ (/\ ScheduledGroup(g)
                /\ EarlierCount(g) >= g.min_courses
                /\ \A p \in Range(g.members) : ~SameOrLater(p, g.course_id))
               => (violations' = violations /\ advisory' = advisory)
            /\ (/\ ScheduledGroup(g)
                /\ EarlierCount(g) < g.min_courses
                /\ Unmet(g) # {})
               => Len(violations') + Len(advisory')
                      > Len(violations) + Len(advisory)]_vars

\* Scenario B: Y = A requires 1 of {B, C}; B is in term 0, A in term 1.
ScenarioB ==
    /\ groups = <<[group_id |-> 1, course_id |-> "A", min_courses |-> 1]>>
    /\ groupMembersRows = <<[group_id |-> 1, prereq_id |-> "B"],
                            [group_id |-> 1, prereq_id |-> "C"]>>
    /\ schedule = <<[course_id |-> "B", termIndex |-> 0],
                    [course_id |-> "A", termIndex |-> 1]>>

\* C5 witness: Scenario B after its group was checked, nothing pushed.
C5_Witness ==
    /\ ScenarioB
    /\ pc = "groups"
    /\ gi = 2
    /\ violations = <<>>
    /\ advisory = <<>>

\* ------------------------------------------------------ graph properties
Succ(n, es) == {es[i][2] : i \in {j \in 1..Len(es) : es[j][1] = n}}

\* The nodes reachable from the set S by zero or more edges.
RECURSIVE ReachFrom(_, _)
ReachFrom(S, es) ==
    LET T == S \cup UNION {Succ(n, es) : n \in S}
    IN  IF T = S THEN S ELSE ReachFrom(T, es)

HasDirectedCycle(es) ==
    \E i \in 1..Len(es) : es[i][1] \in ReachFrom({es[i][2]}, es)

Pos(o, x) == CHOOSE i \in 1..Len(o) : o[i] = x

\* C6 -- Cycle detection correctness: hasCycle is true exactly when the graph
\* has a directed cycle (a self-loop included), which is exactly when the
\* order is strictly shorter than the node count; the response reports this
\* value as details.topoHasCycle.
C6_CycleDetection ==
    /\ pc \in {"groups", "done"} =>
        /\ hasCycle <=> HasDirectedCycle(edges)
        /\ hasCycle <=> Len(topoOrder) < Len(nodes)
    /\ pc = "done" =>
        /\ response.details.topoHasCycle = HasDirectedCycle(edges)
        /\ response.details.nodesCount = Cardinality(Range(nodes))

\* C6 witness: a response that reports a cycle for a graph in which one node
\* has an edge to itself and another node was still ordered.
C6_Witness ==
    /\ pc = "done"
    /\ response.details.topoHasCycle
    /\ \E i \in 1..Len(edges) : edges[i][1] = edges[i][2]
    /\ topoOrder # <<>>

GraphWideAdvisories ==
    {i \in 1..Len(response.advisory) : response.advisory[i].course_id = Null}

\* Scenario D: A requires B, B requires A, both scheduled.
ScenarioD ==
    /\ \E i, j \in 1..Len(edges) :
        edges[i] = <<"A", "B">> /\ edges[j] = <<"B", "A">>
    /\ IsScheduled("A")
    /\ IsScheduled("B")

\* C7 -- Cycle advisory, as claimed: when a cycle is reported the response
\* holds exactly one advisory with no course attached and it names all nodes
\* of the partial topological output; without a cycle it holds none; in
\* Scenario D the cycle is reported with its advisory and fewer than 2
\* courses in suggestedOrder.
C7_CycleAdvisory ==
    pc = "done" =>
        /\ IF response.details.topoHasCycle
           THEN /\ Cardinality(GraphWideAdvisories) = 1
                /\ \A i \in GraphWideAdvisories :
                    Names(response.advisory[i]) = Range(topoOrder)
           ELSE GraphWideAdvisories = {}
        /\ ScenarioD =>
            /\ response.details.topoHasCycle
            /\ GraphWideAdvisories # {}
            /\ Len(response.suggestedOrder) < 2

\* C8 -- Suggested order restricted to outstanding requirements, as claimed:
\* every course of suggestedOrder is in the remaining standalone set.
C8_SuggestedOrderOutstanding ==
    pc = "done" =>
        Range(response.suggestedOrder) \subseteq remainingStandaloneCourseIds

\* C9 -- Suggested order is topologically valid: no course appears twice in
\* suggestedOrder, and for every edge (p, d) with both ends in the order, p
\* comes before d, also with duplicate edges or a cycle elsewhere.
C9_TopologicallyValid ==
    pc = "done" =>
        LET o == response.suggestedOrder
        IN  /\ \A i, j \in 1..Len(o) : i # j => o[i] # o[j]
            /\ \A k \in 1..Len(edges) :
                (edges[k][1] \in Range(o) /\ edges[k][2] \in Range(o)) =>
                    Pos(o, edges[k][1]) < Pos(o, edges[k][2])

\* C9 witness: a response for a graph with a duplicate edge whose two ends
\* are both in the order, and a cycle elsewhere.
C9_Witness ==
    /\ pc = "done"
    /\ hasCycle
    /\ \E i, j \in 1..Len(edges) :
        /\ i # j
        /\ edges[i] = edges[j]
        /\ edges[i][1] \in Range(response.suggestedOrder)
        /\ edges[i][2] \in Range(response.suggestedOrder)

\* Prerequisites of x through one or more group hops.
Ancestors(x) == {q \in Range(nodes) : x \in ReachFrom(Succ(q, edges), edges)}

\* C10 -- Transitive prerequisite check, as claimed: for every scheduled
\* course, every ancestor prerequisite that is not scheduled and is in the
\* remaining standalone set is listed in a violation for that course.
C10_TransitiveCheck ==
    pc = "done" =>
        \A x \in Courses :
            IsScheduled(x) =>
                \A q \in Ancestors(x) :
                    (~IsScheduled(q) /\ q \in remainingStandaloneCourseIds) =>
                        ViolationFor(x, q)

\* The input of C10's divergence: A is scheduled, A requires B, B requires C,
\* neither B nor C is scheduled, every course is tracked.
ChainInput ==
    /\ groups = <<[group_id |-> 1, course_id |-> "A", min_courses |-> 1],
                  [group_id |-> 2, course_id |-> "B", min_courses |-> 1]>>
    /\ groupMembersRows = <<[group_id |-> 1, prereq_id |-> "B"],
                            [group_id |-> 2, prereq_id |-> "C"]>>
    /\ schedule = <<[course_id |-> "A", termIndex |-> 0]>>
    /\ remainingStandaloneCourseIds = Courses

\* The inputs on which the code and the claims C2, C7 and C8 part, and what
\* the handler answers there.
C2_Divergence ==
    /\ groups = <<[group_id |-> 1, course_id |-> "A", min_courses |-> 1]>>
    /\ groupMembersRows = <<[group_id |-> 1, prereq_id |-> "B"]>>
    /\ schedule = <<[course_id |-> "A", termIndex |-> 0],
                    [course_id |-> "B", termIndex |-> 0]>>
    /\ remainingStandaloneCourseIds = {}
    /\ pc = "done"
    /\ response.violations = <<Entry("A", "SameOrLaterTerm", <<"B">>)>>
    /\ response.advisory = <<Entry("A", "NotPlannedNotAvailable", <<"B">>)>>

C7_Divergence ==
    /\ groups = <<[group_id |-> 1, course_id |-> "B", min_courses |-> 1]>>
    /\ groupMembersRows = <<[group_id |-> 1, prereq_id |-> "A"],
                            [group_id |-> 1, prereq_id |-> "B"]>>
    /\ pc = "done"
    /\ response.details.topoHasCycle
    /\ topoOrder = <<"A">>
    /\ \A i \in GraphWideAdvisories : response.advisory[i].named = <<>>

C8_Divergence ==
    /\ groups = <<[group_id |-> 1, course_id |-> "B", min_courses |-> 1]>>
    /\ groupMembersRows = <<[group_id |-> 1, prereq_id |-> "A"]>>
    /\ remainingStandaloneCourseIds = {}
    /\ pc = "done"
    /\ response.suggestedOrder = <<"A", "B">>

C10_Divergence ==
    /\ ChainInput
    /\ pc = "done"
    /\ ~ViolationFor("A", "C")
    /\ ViolationFor("B", "C")

\* -------------------------------------------------- data inconsistencies
\* Number of PrerequisiteGroupCourse rows of a group id.
MemberCount(id) ==
    Cardinality({i \in 1..Len(groupMembersRows) : groupMembersRows[i].group_id = id})

InTable(id) == \E i \in 1..Len(groups) : groups[i].group_id = id

\* The dependent the table gives a group id, Null when the table lacks the id.
DependentOf(id) ==
    IF InTable(id)
    THEN groups[CHOOSE i \in 1..Len(groups) : groups[i].group_id = id].course_id
    ELSE Null

\* An advisory built from none of the missing-prerequisite templates and not
\* the cycle message: the only place a data inconsistency other than a cycle
\* could be reported.
DedicatedAdvisory(a) ==
    a.kind \notin {"NotPlannedNotAvailable", "NotPlannedNorAvailable", "Cycle"}

\* C11 -- min_courses inconsistency is reported, as claimed: for every row of
\* PrerequisiteGroup whose min_courses exceeds the number of its member rows
\* the response holds a dedicated data-inconsistency advisory, whatever the
\* schedule.
C11_MinCoursesReported ==
    pc = "done" =>
        \A i \in 1..Len(groups) :
            groups[i].min_courses > MemberCount(groups[i].group_id) =>
                \E a \in Range(response.advisory) : DedicatedAdvisory(a)

\* The input of C11's divergence: A requires 2 of {B}, B is placed before A;
\* the response is empty.
C11_Divergence ==
    /\ groups = <<[group_id |-> 1, course_id |-> "A", min_courses |-> 2]>>
    /\ groupMembersRows = <<[group_id |-> 1, prereq_id |-> "B"]>>
    /\ schedule = <<[course_id |-> "B", termIndex |-> 0],
                    [course_id |-> "A", termIndex |-> 1]>>
    /\ pc = "done"
    /\ response.violations = <<>>
    /\ response.advisory = <<>>

ScheduledCourses == {c \in Courses : IsScheduled(c)}

GroupMemberCourses == {groupMembersRows[i].prereq_id : i \in 1..Len(groupMembersRows)}

\* C12 -- Graph node set, as claimed: the nodes are exactly the scheduled
\* courses together with the group members in the remaining standalone set,
\* and details.nodesCount counts them.
C12_NodeSet ==
    pc = "done" =>
        LET claimed == ScheduledCourses
                         \cup (GroupMemberCourses \cap remainingStandaloneCourseIds)
        IN  /\ Range(nodes) = claimed
            /\ response.details.nodesCount = Cardinality(claimed)

\* The inputs of C12's divergence: a scheduled course of no group is not a
\* node, and a member neither scheduled nor tracked is one.
C12_Divergence ==
    /\ groups = <<[group_id |-> 1, course_id |-> "B", min_courses |-> 1]>>
    /\ groupMembersRows = <<[group_id |-> 1, prereq_id |-> "C"]>>
    /\ schedule = <<[course_id |-> "A", termIndex |-> 0]>>
    /\ remainingStandaloneCourseIds = {}
    /\ pc = "done"
    /\ nodes = <<"B", "C">>
    /\ response.details.nodesCount = 2

\* The member rows that give an edge: those of a group with a dependent.
EdgeRows ==
    {i \in 1..Len(groupMembersRows) :
        DependentOf(groupMembersRows[i].group_id) # Null}

OrphanRows ==
    {i \in 1..Len(groupMembersRows) : ~InTable(groupMembersRows[i].group_id)}

C18_InconsistenciesAdvised ==
    pc = "done" =>
        /\ response.status = 200
        /\ hasCycle => \E a \in Range(response.advisory) : a.kind = "Cycle"
        /\ OrphanRows # {} => \E a \in Range(response.advisory) : DedicatedAdvisory(a)
        /\ (\E i \in 1..Len(groups) :
                groups[i].min_courses > MemberCount(groups[i].group_id)) =>
            \E a \in Range(response.advisory) : DedicatedAdvisory(a)

\* The input of C18's divergence: one member row of a group the table lacks.
C18_Divergence ==
    /\ groups = <<>>
    /\ groupMembersRows = <<[group_id |-> 1, prereq_id |-> "A"]>>
    /\ pc = "done"
    /\ response.status = 200
    /\ response.advisory = <<>>

\* ------------------------------------------------ request properties
\* A scheduled item of a tracked course whose availability is known and does
\* not list the item's quarter.
OffTerm(i) ==
    /\ schedule[i].course_id \in remainingStandaloneCourseIds
    /\ availability[schedule[i].course_id] # {}
    /\ schedule[i].termName \notin availability[schedule[i].course_id]

\* A scheduled item of a tracked course whose availability is empty.
UnknownTerm(i) ==
    /\ schedule[i].course_id \in remainingStandaloneCourseIds
    /\ availability[schedule[i].course_id] = {}

AdvisoryOfKind(c, k) ==
    \E a \in Range(response.advisory) : a.course_id = c /\ a.kind = k

\* C14 -- Term-availability advisory, as claimed: a normal result holds a
\* "not scheduled on offered term" advisory for every scheduled tracked course
\* whose non-empty availability lacks the scheduled quarter, and a "might not
\* be offered" advisory for every scheduled tracked course whose availability
\* is empty.
C14_AvailabilityAdvisory ==
    (pc = "done" /\ response.status = 200) =>
        \A i \in 1..Len(schedule) :
            /\ OffTerm(i) =>
                AdvisoryOfKind(schedule[i].course_id, "NotOnOfferedTerm")
            /\ UnknownTerm(i) =>
                AdvisoryOfKind(schedule[i].course_id, "MightNotBeOffered")

\* The input of C14's divergence: A is offered in Fall and placed in Winter;
\* the response holds no advisory.
C14_Divergence ==
    /\ schedule = <<[course_id |-> "A", termIndex |-> 0, termName |-> "Winter"]>>
    /\ remainingStandaloneCourseIds = {"A"}
    /\ availability["A"] = {"Fall"}
    /\ pc = "done"
    /\ response.status = 200
    /\ response.advisory = <<>>

\* The schedule as the handler reads it: course and term index.
Placement(s) ==
    [i \in 1..Len(s) |-> [course_id |-> s[i].course_id, termIndex |-> s[i].termIndex]]

\* The previous request was the current one up to quarter names and
\* availability strings.
SameButNames ==
    /\ previous # NoPrevious
    /\ Placement(previous.request.schedule) = Placement(schedule)
    /\ previous.request.remaining = remainingStandaloneCourseIds
    /\ previous.request.scheduleIsArray = scheduleIsArray
    /\ previous.request.remainingIsArray = remainingIsArray

\* C15 -- Availability never blocks: two requests that differ only in the
\* availability strings or the quarter names get the same violations, and
\* every violation is built from one of the three prerequisite templates.
C15_AvailabilityNeverBlocks ==
    (pc = "done" /\ response.status = 200) =>
        /\ (SameButNames /\ previous.response.status = 200) =>
            response.violations = previous.response.violations
        /\ \A v \in Range(response.violations) :
            v.kind \in {"NotEnoughPrerequisites", "ExistButNotScheduled",
                        "SameOrLaterTerm"}

\* C15 witness: the second response, with violations, to a request whose
\* scheduled dependent went from a listed quarter to one its availability
\* lacks.
C15_Witness ==
    /\ pc = "done"
    /\ response.status = 200
    /\ SameButNames
    /\ previous.response.status = 200
    /\ response.violations # <<>>
    /\ \E i \in 1..Len(schedule) :
        /\ OffTerm(i)
        /\ schedule[i].termName # previous.request.schedule[i].termName
        /\ \E g \in AllGroups : g.course_id = schedule[i].course_id

Malformed == ~scheduleIsArray \/ ~remainingIsArray

\* C16 -- Malformed input is rejected before any work: a request whose
\* schedule or remainingStandaloneCourseIds is not an array makes no store
\* call, builds no group table and no graph, pushes no violation and no
\* advisory, and is answered 400 with an error alone.
C16_MalformedRejected ==
    Malformed =>
        /\ pc \in {"start", "done"}
        /\ queries = <<>>
        /\ groupsById = <<>>
        /\ nodes = <<>>
        /\ edges = <<>>
        /\ topoOrder = <<>>
        /\ violations = <<>>
        /\ advisory = <<>>
        /\ pc = "done" =>
            /\ response.status = 400
            /\ DOMAIN response = {"status", "error"}

\* C16 witness: the answer to a request whose schedule is an array and whose
\* remainingStandaloneCourseIds is not, over tables that hold a group.
C16_Witness ==
    /\ pc = "done"
    /\ scheduleIsArray
    /\ ~remainingIsArray
    /\ schedule # <<>>
    /\ groups # <<>>
    /\ response.status = 400

StoreFailed == \E i \in 1..Len(queries) : ~queries[i].ok

\* C17 -- Store failure aborts the whole verification: when a store call
\* failed the response is a 500 with an error alone (no violations, no
\* advisory, no suggestedOrder), a 500 is sent for no other reason, and the
\* handler sends one response per request: once sent it is not replaced
\* before the next request starts.
C17_StoreFailureAborts ==
    /\ [](pc = "done" =>
            /\ StoreFailed <=> response.status = 500
            /\ StoreFailed => DOMAIN response = {"status", "error"}
            /\ response # NotSent)
    /\ [](pc # "done" => (response = NotSent /\ ~StoreFailed))
    /\ [][response # NotSent => response' \in {response, NotSent}]_vars

\* C17 witness: the 500 sent after the Course query of loadCourseCodes threw,
\* with the group table and a graph with an edge already built.
C17_Witness ==
    /\ pc = "done"
    /\ response.status = 500
    /\ Len(queries) = 5
    /\ ~queries[5].ok
    /\ groupsById # <<>>
    /\ edges # <<>>

\* C19 -- Idempotence: a request that repeats the previous one, where no
\* store call failed either time, gets a response identical to the previous
\* one in violations, advisory, suggestedOrder and details.
C19_Idempotence ==
    (/\ pc = "done"
     /\ previous.request = Request
     /\ response.status # 500
     /\ previous.response.status # 500) =>
        response = previous.response

\* C19 witness: the second of two identical requests, answered with a
\* violation and an advisory.
C19_Witness ==
    /\ pc = "done"
    /\ previous.request = Request
    /\ response.status = 200
    /\ response.violations # <<>>
    /\ response.advisory # <<>>
    /\ response = previous.response

\* ---------------------------------------------------- sort properties
NoRepeat(o) == \A i, j \in 1..Len(o) : i # j => o[i] # o[j]

\* C20 -- Termination: on every node and edge list, cycles, self-loops and
\* duplicate edges included, the loop of topoSort runs at most once per node:
\* every iteration appends one node to the order, no node is in the order
\* twice or in the queue once ordered, so the order never grows past the
\* number of nodes; with the queue empty the only step is the return, and
\* what is returned is the order and the flag of the sort taken as one step.
C20_Termination ==
    /\ [](/\ NoRepeat(topoOrder \o sortQueue)
          /\ Len(topoOrder) + Len(sortQueue) <= Len(AdjKeys))
    /\ [](pc = "sorted" =>
            /\ topoOrder = topoSort(nodes, edges).order
            /\ hasCycle = topoSort(nodes, edges).hasCycle)
    /\ [][pc = "loop" =>
            IF sortQueue # <<>>
            THEN /\ pc' = "loop"
                 /\ Len(topoOrder') = Len(topoOrder) + 1
                 /\ Len(AdjKeys) - Len(topoOrder') < Len(AdjKeys) - Len(topoOrder)
            ELSE pc' = "sorted" /\ topoOrder' = topoOrder]_vars

\* C20 witness: topoSort has returned on a graph with a 2-cycle reached from
\* a node that was ordered, and with a duplicate edge.
C20_Witness ==
    /\ pc = "sorted"
    /\ hasCycle
    /\ topoOrder # <<>>
    /\ \E i, j \in 1..Len(edges) :
        /\ i # j
        /\ edges[i] = edges[j]
        /\ edges[i][1] \in Range(topoOrder)
        /\ edges[i][2] \in ReachFrom(Succ(edges[i][2], edges), edges)

\* The response the running call's request gets from a handler that serves
\* nothing else: the steps of the handler applied to the request and the two
\* tables.
RECURSIVE AllViolations(_)
AllViolations(m) ==
    IF m = <<>> THEN <<>> ELSE GroupViolations(Head(m)) \o AllViolations(Tail(m))

RECURSIVE AllAdvisories(_)
AllAdvisories(m) ==
    IF m = <<>> THEN <<>> ELSE GroupAdvisories(Head(m)) \o AllAdvisories(Tail(m))

HandledAlone ==
    LET m  == BuildGroupsById(groups, groupMembersRows)
        ns == BuildNodes(<<>>, m)
        es == BuildEdges(m)
        t  == topoSort(ns, es)
    IN  [status |-> 200,
         violations |-> AllViolations(m),
         advisory |-> AllAdvisories(m) \o CycleAdvisory(t.hasCycle),
         suggestedOrder |-> suggestedOrder(t.order),
         details |-> [nodesCount |-> Len(ns), edgesCount |-> Len(es),
                      topoHasCycle |-> t.hasCycle]]

\* C21 -- Request independence: whatever the order in which the awaits of two
\* calls interleave, the response a call sends is the response its request
\* gets when handled alone, and the frame of a call that waits is changed by
\* nothing but its own resumption.
C21_RequestIndependence ==
    /\ [](pc = "done" => response = HandledAlone)
    /\ [][suspended' # suspended => (suspended' = Frame /\ Frame' = suspended)]_vars

\* C21 witness: both calls read the tables before either loaded the course
\* codes, both have answered, and the two responses differ.
C21_Witness ==
    /\ pc = "done"
    /\ suspended # NoCall
    /\ suspended.pc = "done"
    /\ queries = Answered(LoadCalls) \o Answered(LoadCalls)
                 \o Answered(CodeCalls) \o Answered(CodeCalls)
    /\ response.violations # <<>>
    /\ suspended.response.violations # response.violations

\* Position of a scheduled course in the submitted schedule.
PositionOf(c) == CHOOSE i \in 1..Len(schedule) : schedule[i].course_id = c

\* The entries of a list follow the schedule: of two entries for different
\* scheduled courses, the one that stands first is for the course that stands
\* first in the schedule.
InScheduleOrder(list) ==
    \A i, j \in 1..Len(list) :
        (/\ i < j
         /\ list[i].course_id # Null
         /\ list[j].course_id # Null
         /\ IsScheduled(list[i].course_id)
         /\ IsScheduled(list[j].course_id)) =>
            PositionOf(list[i].course_id) <= PositionOf(list[j].course_id)

\* C22 -- Findings in schedule order, as claimed: in the violations and in the
\* advisories of the response, entries for a course that stands earlier in
\* the schedule precede entries for a course that stands later.
C22_ScheduleOrder ==
    (pc = "done" /\ response.status = 200) =>
        /\ InScheduleOrder(response.violations)
        /\ InScheduleOrder(response.advisory)

\* C22 divergence: B is placed before A in the schedule, the group of A has the
\* lower group id, and the violation for A stands before the violation for B.
C22_Divergence ==
    /\ pc = "done"
    /\ Len(schedule) = 2
    /\ schedule[1].course_id = "B"
    /\ schedule[2].course_id = "A"
    /\ Len(response.violations) = 2
    /\ response.violations[1].course_id = "A"
    /\ response.violations[2].course_id = "B"

\* The group has a member whose suffix, leading zeros stripped, is ANY.
LiteralAny(cid) == StripLeadingZeros(SliceFrom2(cid)) = ANY

HasAnyMember == \E i \in 1..Len(requirementGroupCourse) :
                    LiteralAny(requirementGroupCourse[i])

CatalogLookups == {i \in 1..Len(queries) : queries[i].call = "Course"}

\* C23 -- ANY short-circuit, as claimed: a group of requirements-availability
\* with an ANY member gets the availability of all four quarters, wherever
\* the ANY member stands, and the catalog is asked about none of its members.
C23_AnyShortCircuit ==
    (/\ apiRequest.endpoint = "requirements-availability"
     /\ HasAnyMember) =>
        /\ CatalogLookups = {}
        /\ pc = "done" =>
             response.groups = <<[availability |-> fullAvailability]>>

\* C23 divergence: the pattern member SC00ANTH stands before SCANY, and the
\* catalog was asked for the courses of the pattern before ANY was met.
C23_Divergence ==
    /\ apiRequest.endpoint = "requirements-availability"
    /\ requirementGroupCourse = <<SC00ANTH, SCANY>>
    /\ pc = "done"
    /\ CatalogLookups # {}
    /\ response.groups = <<[availability |-> fullAvailability]>>

\* What a member token denotes, in the words of the claim: itself if its
\* suffix is numeric, every course of the catalog with its prefix if the suffix
\* is ANY, else the courses of the catalog whose id starts with the prefix and
\* whose code starts with the suffix, whatever the case of the letters.
CatalogIds == {CourseTable[i].course_id : i \in 1..Len(CourseTable)}

CodeOf(id) ==
    (CHOOSE r \in Range(CourseTable) : r.course_id = id).code

Denoted(token) ==
    LET prefix == SliceTo2(token)
        suffix == StripLeadingZeros(SliceFrom2(token))
    IN  IF \A i \in 1..Len(suffix) : suffix[i] \in Digits THEN {token}
        ELSE IF suffix = ANY
        THEN {id \in CatalogIds : startsWith(id, prefix)}
        ELSE {id \in CatalogIds :
                /\ startsWith(toUpperCase(id), toUpperCase(prefix))
                /\ startsWith(toUpperCase(CodeOf(id)), toUpperCase(suffix))}

DenotedByAll(tokens) == UNION {Denoted(tokens[i]) : i \in 1..Len(tokens)}

ExpansionSite ==
    apiRequest.endpoint \in {"requirements-availability", "group-term-courses"}

\* The members the loop has dealt with, the ANY member it left at included.
Processed ==
    SubSeq(requirementGroupCourse, 1, IF pc = "start" THEN 0
                                      ELSE IF pc = "members" THEN ci - 1
                                      ELSE IF pc = "broke" THEN ci
                                      ELSE Len(requirementGroupCourse))

OfferedIn(id, term) ==
    \E ca \in courseAvailability : ca.course_id = id /\ term \in ca.terms

AnsweredIds == {r.course_id : r \in response.courses}

\* The loop of either endpoint took every member without ANY for what it
\* denotes, and stopped with its flag set at the first ANY member.
C24_LoopsAgree ==
    (ExpansionSite /\ pc \in {"members", "broke"}) =>
        /\ pc = "members" =>
             /\ \A i \in 1..(ci - 1) : ~LiteralAny(requirementGroupCourse[i])
             /\ Range(expandedCourseIds) = DenotedByAll(Processed)
        /\ pc = "broke" =>
             /\ LiteralAny(requirementGroupCourse[ci])
             /\ Range(expandedCourseIds)
                  = DenotedByAll(SubSeq(requirementGroupCourse, 1, ci - 1))
             /\ hasAny = (apiRequest.endpoint = "group-term-courses")
             /\ (groupAvailability = fullAvailability)
                  = (apiRequest.endpoint = "requirements-availability")

\* C24 -- Token classification, as claimed: at both expansion sites a numeric
\* member stands for itself, a pattern member for its matches in the catalog
\* and an ANY member for every course with its prefix; so the courses that
\* group-term-courses answers are courses the members denote, and every
\* course of the catalog that a member denotes and that is offered in the
\* term is among them.
C24_TokenClassification ==
    /\ C24_LoopsAgree
    /\ (apiRequest.endpoint = "group-term-courses" /\ pc = "done") =>
         /\ AnsweredIds \subseteq DenotedByAll(requirementGroupCourse)
         /\ \A id \in DenotedByAll(requirementGroupCourse) \cap CatalogIds :
              OfferedIn(id, apiRequest.term) => id \in AnsweredIds

\* C24 divergence: the group is the one member SCANY, SC101 is offered in the
\* term asked for, and the answer holds the placeholder row alone.
C24_Divergence ==
    /\ apiRequest.endpoint = "group-term-courses"
    /\ pc = "done"
    /\ requirementGroupCourse = <<SCANY>>
    /\ OfferedIn(SC101, apiRequest.term)
    /\ AnsweredIds = {SCANY}

\* The suffix of a member token, leading zeros stripped and in upper case.
SuffixOf(m) == toUpperCase(StripLeadingZeros(SliceFrom2(m)))

NumericSuffix(m) == \A i \in 1..Len(SuffixOf(m)) : SuffixOf(m)[i] \in Digits

Members == Range(requirementGroupCourse)

\* The grounds on which the claim lets a course c stand for the group.
SatisfiesGroup(c) ==
    \/ c.course_id \in Members /\ NumericSuffix(c.course_id)
    \/ \E m \in Members :
        /\ SuffixOf(m) = ANY
        /\ startsWith(c.course_id, SliceTo2(m))
    \/ \E m \in Members :
        /\ ~NumericSuffix(m)
        /\ SuffixOf(m) # ANY
        /\ startsWith(c.course_id, SliceTo2(m))
        /\ startsWith(toUpperCase(c.code), SuffixOf(m))

KnownCode(code) ==
    \E r \in Range(CourseTable) : toUpperCase(r.code) = toUpperCase(code)

\* C28 -- Group-entry validation is sound: validate-v2 answers valid = true
\* only with a course of the catalog whose code is the typed code, whatever
\* the case, and that is a numeric-suffix member of the group or has the
\* prefix of an ANY member or the prefix of a pattern member and a code that
\* starts with its suffix; it answers valid = false for an unknown code and
\* for a group without members.
C28_ValidationSound ==
    (apiRequest.endpoint = "validate-v2" /\ pc = "done") =>
        /\ response.valid =>
             /\ Len(response.course) = 1
             /\ response.course[1] \in Range(CourseTable)
             /\ toUpperCase(response.course[1].code)
                  = toUpperCase(apiRequest.courseCode)
             /\ SatisfiesGroup(response.course[1])
        /\ (~KnownCode(apiRequest.courseCode) \/ requirementGroupCourse = <<>>)
             => ~response.valid

\* C28 witness: a code typed in lower case is accepted for a group through
\* its ANY member, with a course that is no row of the group, although
\* another college teaches a course of the same code.
C28_Witness ==
    /\ apiRequest.endpoint = "validate-v2"
    /\ pc = "done"
    /\ response.valid
    /\ apiRequest.courseCode # toUpperCase(apiRequest.courseCode)
    /\ response.course[1].course_id \notin Members
    /\ \E m \in Members : SuffixOf(m) = ANY
    /\ Len(coursesA(toUpperCase(apiRequest.courseCode))) > 1

\* Groups with a dependent that the schedule does not hold.
UnscheduledGroup(g) == g.course_id # Null /\ ~IsScheduled(g.course_id)

EntriesFor(list, d) == {e \in Range(list) : e.course_id = d}

PlacedCourse(slot) ==
    IF slot.course \in StandaloneIds THEN slot.course
    ELSE IF slot.course \in GroupKeys THEN slot.chosenCourse
    ELSE None

PlacedSlots == {at \in SlotsOf(plannerQuarters) :
                   PlacedCourse(SlotAt(plannerQuarters, at)) # None}

\* Item i of the schedule s is the item of the slot at.
ItemOfSlot(s, i, at) ==
    s[i].course.course_id = PlacedCourse(SlotAt(plannerQuarters, at))

C26_ShapeAgreement ==
    /\ ScheduleValid
    /\ RemainingValid
    /\ pc = "done" => response.status # 400
    /\ \A i \in 1..Len(schedule) :
        /\ schedule[i].course_id \in StandaloneIds \cup ChosenCourses
        /\ IsScheduled(schedule[i].course_id)

\* The request of C26's divergence: the plan holds the standalone course in
\* its first quarter; the handler finds no remainingStandaloneCourseIds in
\* the body, reads undefined for the item's course, and answers 400.
C26_Divergence ==
    /\ <<1, 1>> \in SlotsOf(plannerQuarters)
    /\ PlacedCourse(SlotAt(plannerQuarters, <<1, 1>>)) = "A"
    /\ VerifyBody.schedule = <<[course |-> StandaloneRecord("A"),
                                termIndex |-> 0,
                                termName |-> plannerQuarters[1].name]>>
    /\ schedule = <<[course_id |-> Undefined, termIndex |-> 0]>>
    /\ scheduleIsArray
    /\ ~remainingIsArray
    /\ pc = "done"
    /\ response = BadRequest("remainingStandaloneCourseIds")

\* The slots something was dropped on.
OccupiedSlots == {at \in SlotsOf(plannerQuarters) :
                     SlotAt(plannerQuarters, at).course # None}

\* This step hands a request of the page to the handler.
Posted ==
    /\ pc' = "start"
    /\ <<schedule, scheduleIsArray, remainingIsArray, pc, response>>'
         # <<schedule, scheduleIsArray, remainingIsArray, pc, response>>

Placed(course) ==
    \E at \in SlotsOf(plannerQuarters) : SlotAt(plannerQuarters, at).course = course

\* C30 -- Used-set consistency, as claimed: after any sequence of drops,
\* moves, removals, regenerations of the plan and lock and unlock, a
\* standalone course is in usedStandalone, and a group instance in usedGroup,
\* exactly when it occupies a slot of the plan, so a requirement of the
\* remaining lists is draggable exactly when it is not placed.
C30_UsedSetConsistency ==
    /\ \A c \in StandaloneIds : c \in usedStandalone <=> Placed(c)
    /\ \A k \in GroupKeys : k \in usedGroup <=> Placed(k)

\* A state of C30's divergence: the plan is on the page with every slot
\* empty, the standalone course and the group are in the remaining lists,
\* and both are still in the used sets, so neither can be dragged.
C30_Divergence ==
    /\ PlanShown
    /\ plannerQuarters # <<>>
    /\ OccupiedSlots = {}
    /\ remainingStandaloneAvailabilities # <<>>
    /\ remainingGroupAvailabilities # <<>>
    /\ usedStandalone = StandaloneIds
    /\ usedGroup = GroupKeys


====
